---- MODULE Spec2Model ----
(***************************************************************************)
(* A model of mailpile/mailutils.py: the line block classifier             *)
(* (Email.parse_line_type, Email.parse_text_part), the message tree        *)
(* builder and the inline PGP overlay (Email.get_message_tree,             *)
(* Email.evaluate_pgp), the attachment ordinal (Email._find_attachments),  *)
(* the parse cache (ParseMessage, ClearParseCache,                         *)
(* Email.update_parse_cache) and AddressHeaderParser.                      *)
(*                                                                         *)
(* Each component has its own specification; the variables of the other    *)
(* components stay at their idle values.                                   *)
(***************************************************************************)
EXTENDS Integers, Sequences, FiniteSets, TLC

VARIABLES
    tp_input,     \* parse_text_part: the lines of data.splitlines(True) consumed so far
    tp_block,     \* parse_text_part: block
    tp_parse,     \* parse_text_part: parse (the last element is current)
    tp_clines     \* parse_text_part: clines

VARIABLES
    ev_msg,       \* Email.get_msg(): the MIME parts of the message, in walk order
    ev_tree,      \* the tree get_message_tree returned, as evaluate_pgp changes it
    ev_orig,      \* tree['text_parts'] as get_message_tree returned them
    ev_opts,      \* evaluate_pgp: check_sigs, decrypt
    ev_pgpdata,   \* evaluate_pgp: pgpdata, as indices into tree['text_parts']
    ev_i,         \* evaluate_pgp: the index of the next part of the loop
    ev_pc,        \* "msg", "tree", "loop", "returned", "raised"
    ev_exc,       \* the exception evaluate_pgp raised, or "none"
    ev_calls      \* the calls of gpg.verify and gpg.decrypt made so far

VARIABLES
    gpc,          \* GLOBAL_PARSE_CACHE: (cache_id, pgpmime, message) entries, newest first
    pc_next,      \* the next fresh message object
    pc_clock,     \* the number of cache operations so far
    pc_stored,    \* history: every (cache_id, pgpmime, message) ever put in the cache
    pc_cleared,   \* history: <<k, time>> of the last ClearParseCache(cache_id=k), per k
    pc_last       \* history: the last operation and what it returned

VARIABLES
    ah_raw_data,  \* AddressHeaderParser: _raw_data, the header being parsed
    ah_args,      \* AddressHeaderParser: _parse_args (strict, _raise)
    ah_pc,        \* "new", "returned", "raised": how the last parse ended
    ah_list,      \* AddressHeaderParser: the list itself (self[:])
    ah_tokens,    \* AddressHeaderParser: _tokens
    ah_groups,    \* AddressHeaderParser: _groups
    ah_passes     \* history: the passes the last parse ran

VARIABLES
    lk_holder,    \* GLOBAL_PARSE_CACHE_LOCK: the thread that holds it, or 0
    lk_thr,       \* per thread: where it is in its call, and the call's locals
    lk_hist       \* history: whether an update_parse_cache call is over, and the
                  \* messages made before the last one began (cached, held by a call)

textVars == <<tp_input, tp_block, tp_parse, tp_clines>>

treeVars == <<ev_msg, ev_tree, ev_orig, ev_opts, ev_pgpdata, ev_i, ev_pc, ev_exc,
              ev_calls>>

cacheVars == <<gpc, pc_next, pc_clock, pc_stored, pc_cleared, pc_last>>

addrVars == <<ah_raw_data, ah_args, ah_pc, ah_list, ah_tokens, ah_groups, ah_passes>>

lockVars == <<lk_holder, lk_thr, lk_hist>>

vars == <<tp_input, tp_block, tp_parse, tp_clines,
          ev_msg, ev_tree, ev_orig, ev_opts, ev_pgpdata, ev_i, ev_pc, ev_exc,
          ev_calls,
          gpc, pc_next, pc_clock, pc_stored, pc_cleared, pc_last,
          ah_raw_data, ah_args, ah_pc, ah_list, ah_tokens, ah_groups, ah_passes,
          lk_holder, lk_thr, lk_hist>>

(***************************************************************************)
(* Lines.  A line of data.splitlines(True) is [s, t]: s is line.rstrip()   *)
(* and t the trailing white space with the line end, so the line is s + t. *)
(***************************************************************************)
ARMOR_BEGIN_SIGNED    == "-----BEGIN PGP SIGNED MESSAGE-----"
ARMOR_BEGIN_SIGNATURE == "-----BEGIN PGP SIGNATURE-----"
ARMOR_END_SIGNATURE   == "-----END PGP SIGNATURE-----"
ARMOR_BEGIN_ENCRYPTED == "-----BEGIN PGP MESSAGE-----"
ARMOR_END_ENCRYPTED   == "-----END PGP MESSAGE-----"

Line(s, t) == [s |-> s, t |-> t]

L_TEXT     == Line("Hello", "\n")
L_ATTRIB   == Line("On Monday, bre@klaki.net wrote:", "\n")
L_BLANK    == Line("", "\n")
L_QUOTE    == Line("> quoted", "\n")
L_QUOTEAT  == Line("> mail me: a@b.is", "\n")
L_SIGSEP   == Line("--", " \n")
L_SIGOLD   == Line("- --", "\n")
L_DASHES   == Line("--", "\n")
L_BSIGNED  == Line(ARMOR_BEGIN_SIGNED, "\n")
L_HASH     == Line("Hash: SHA1", "\n")
L_BSIG     == Line(ARMOR_BEGIN_SIGNATURE, "\n")
L_ESIG     == Line(ARMOR_END_SIGNATURE, "\n")
L_BENC     == Line(ARMOR_BEGIN_ENCRYPTED, "\r\n")
L_EENC     == Line(ARMOR_END_ENCRYPTED, "\n")

Lines == { L_TEXT, L_ATTRIB, L_BLANK, L_QUOTE, L_QUOTEAT, L_SIGSEP, L_SIGOLD,
           L_DASHES, L_BSIGNED, L_HASH, L_BSIG, L_ESIG, L_BENC, L_EENC }

\* line.rstrip()
Rstrip(line) == line.s

\* line in ('-- \n', '-- \r\n', '- --\n', '- --\r\n')
IsSignatureSeparator(line) ==
    \/ line.s = "--"   /\ line.t \in {" \n", " \r\n"}
    \/ line.s = "- --" /\ line.t \in {"\n", "\r\n"}

\* line.startswith('Hash: ')
StartsWithHash(line) == line.s \in {"Hash: SHA1"}

\* ':' in line
HasColon(line) == line.s \in {"On Monday, bre@klaki.net wrote:", "> mail me: a@b.is",
                              "Hash: SHA1"}

\* line.startswith('>')
StartsWithGT(line) == line.s \in {"> quoted", "> mail me: a@b.is"}

\* '@' in line
HasAt(line) == line.s \in {"On Monday, bre@klaki.net wrote:", "> mail me: a@b.is"}

\* '' == line.strip()
IsBlank(line) == line.s = ""

(***************************************************************************)
(* Email.parse_line_type: (line, block) -> <<block, ltype>>                *)
(***************************************************************************)
QuoteRuleSticky(line, block) ==
    block = "quote" \/ StartsWithGT(line)

\* the two quote tests: a blank line inside a quote, or a line starting with '>'
QuoteRule(line, block) ==
    \/ block = "quote" /\ Rstrip(line) = ""
    \/ StartsWithGT(line)

DefaultRuleSwapped == <<"text", "text">>

\* the fallthrough: return 'body', 'text'
DefaultRule == <<"body", "text">>

SignatureRuleOnSeparatorOnly(line, block) ==
    block \in {"body", "quote"} /\ IsSignatureSeparator(line)

\* the two signature tests: a separator line in body or quote state, or any
\* line in signature state
SignatureRule(line, block) ==
    \/ block \in {"body", "quote"} /\ IsSignatureSeparator(line)
    \/ block = "signature"

parse_line_type(line, block) ==
    IF SignatureRule(line, block)
        THEN <<"signature", "signature">>
    ELSE IF Rstrip(line) = ARMOR_BEGIN_SIGNED
        THEN <<"pgpbeginsigned", "pgpbeginsigned">>
    ELSE IF block = "pgpbeginsigned"
        THEN IF StartsWithHash(line) \/ Rstrip(line) = ""
                 THEN <<"pgpbeginsigned", "pgpbeginsigned">>
                 ELSE <<"pgpsignedtext", "pgpsignedtext">>
    ELSE IF block = "pgpsignedtext"
        THEN IF Rstrip(line) = ARMOR_BEGIN_SIGNATURE
                 THEN <<"pgpsignature", "pgpsignature">>
                 ELSE <<"pgpsignedtext", "pgpsignedtext">>
    ELSE IF block = "pgpsignature"
        THEN IF Rstrip(line) = ARMOR_END_SIGNATURE
                 THEN <<"pgpend", "pgpsignature">>
                 ELSE <<"pgpsignature", "pgpsignature">>
    ELSE IF Rstrip(line) = ARMOR_BEGIN_ENCRYPTED
        THEN <<"pgpbegin", "pgpbegin">>
    ELSE IF block = "pgpbegin"
        THEN IF HasColon(line) \/ Rstrip(line) = ""
                 THEN <<"pgpbegin", "pgpbegin">>
                 ELSE <<"pgptext", "pgptext">>
    ELSE IF block = "pgptext"
        THEN IF Rstrip(line) = ARMOR_END_ENCRYPTED
                 THEN <<"pgpend", "pgpend">>
                 ELSE <<"pgptext", "pgptext">>
    ELSE IF QuoteRule(line, block)
        THEN <<"quote", "quote">>
    ELSE DefaultRule

(***************************************************************************)
(* Email.parse_text_part, one iteration of its loop over the lines.        *)
(* A block is [type, data]; data is the sequence of the lines joined       *)
(* into the block's 'data' string.                                         *)
(***************************************************************************)
Block(type, data) == [type |-> type, data |-> data]

\* current['type']: 'bogus' before the first block is appended
CurrentType(parse) ==
    IF parse = <<>> THEN "bogus" ELSE parse[Len(parse)].type

Last(seq) == seq[Len(seq)]

LookbackIntoAnyType(ltype, clines) ==
    IF clines # <<>> /\ HasAt(Last(clines))
        THEN 1
    ELSE IF Len(clines) > 2 /\ HasAt(clines[Len(clines) - 1]) /\ IsBlank(Last(clines))
        THEN 2
    ELSE 0

\* the number of lines the quote hack moves out of the previous block
Lookback(ltype, clines) ==
    IF ltype = "quote" /\ clines # <<>> /\ HasAt(Last(clines))
        THEN 1
    ELSE IF /\ ltype = "quote"
            /\ Len(clines) > 2
            /\ HasAt(clines[Len(clines) - 1])
            /\ IsBlank(Last(clines))
        THEN 2
    ELSE 0

DropLastOneMore(clines, n) == SubSeq(clines, 1, Len(clines) - n - 1)

\* clines[:-n]
DropLast(clines, n) == SubSeq(clines, 1, Len(clines) - n)

\* clines[-n:]
TakeLast(clines, n) == SubSeq(clines, Len(clines) - n + 1, Len(clines))

\* current['data'] = ''.join(clines[:-n]), current being the last block of parse
SetCurrentData(parse, data) ==
    IF parse = <<>> THEN parse
    ELSE [parse EXCEPT ![Len(parse)].data = data]

\* current['data'] += line
AppendToCurrent(parse, line) ==
    [parse EXCEPT ![Len(parse)].data = Append(@, line)]

\* the body of the loop: st is [block, parse, clines]
ParseStep(st, line) ==
    LET r     == parse_line_type(line, st.block)
        ltype == r[2]
    IN  IF ltype # CurrentType(st.parse)
        THEN LET n      == Lookback(ltype, st.clines)
                 prev   == IF n > 0
                               THEN SetCurrentData(st.parse, DropLast(st.clines, n))
                               ELSE st.parse
                 moved  == IF n > 0 THEN TakeLast(st.clines, n) ELSE <<>>
                 parse2 == Append(prev, Block(ltype, moved))
             IN  [block  |-> r[1],
                  parse  |-> AppendToCurrent(parse2, line),
                  clines |-> Append(moved, line)]
        ELSE [block  |-> r[1],
              parse  |-> AppendToCurrent(st.parse, line),
              clines |-> Append(st.clines, line)]

ParseStart == [block |-> "body", parse |-> <<>>, clines |-> <<>>]

RECURSIVE ParseFold(_, _)
ParseFold(st, lines) ==
    IF lines = <<>> THEN st
    ELSE ParseFold(ParseStep(st, Head(lines)), Tail(lines))

\* parse_text_part(data, charset, crypto): the blocks of the lines of data
parse_text_part(lines) == ParseFold(ParseStart, lines).parse

\* ''.join of the data of the blocks
RECURSIVE JoinData(_)
JoinData(blocks) ==
    IF blocks = <<>> THEN <<>>
    ELSE Head(blocks).data \o JoinData(Tail(blocks))

(***************************************************************************)
(* The message: the parts of msg.walk().  A part is                        *)
(* [mimetype, inline, crypted, text]: inline is                            *)
(* part.get('content-disposition', 'inline') == 'inline', crypted is       *)
(* part.cryptedcontainer is True, text the lines of the decoded payload.   *)
(***************************************************************************)
Part(mimetype, inline, crypted, text) ==
    [mimetype |-> mimetype, inline |-> inline, crypted |-> crypted, text |-> text]

T_PLAIN       == <<L_TEXT>>
T_SIGNED      == <<L_BSIGNED, L_HASH, L_TEXT, L_BSIG, L_ESIG>>
T_SIGNED_OPEN == <<L_BSIGNED, L_BLANK, L_TEXT>>
T_ENC         == <<L_BENC, L_TEXT, L_EENC>>
T_ENC_OPEN    == <<L_BENC, L_TEXT>>

\* a payload of white space only
T_BLANK       == <<L_BLANK>>

TextSamples == {T_PLAIN, T_SIGNED, T_SIGNED_OPEN, T_ENC, T_ENC_OPEN, T_BLANK}

\* the text _extract_text_from_html gives for the HTML part of the model
T_HTML == <<L_TEXT>>

P_HTML    == Part("text/html", TRUE, FALSE, T_HTML)
P_ATT     == Part("application/pdf", FALSE, FALSE, <<>>)
P_MULTI   == Part("multipart/mixed", TRUE, FALSE, <<>>)
P_PGPENC  == Part("application/pgp-encrypted", TRUE, FALSE, <<>>)
P_CRYPTED == Part("application/octet-stream", FALSE, TRUE, <<>>)

Parts == { Part("text/plain", TRUE, FALSE, t) : t \in TextSamples }
             \cup {P_HTML, P_ATT, P_MULTI, P_PGPENC, P_CRYPTED}

\* mimetype.startswith('multipart/')
IsMultipart(mimetype) == mimetype \in {"multipart/mixed"}

(***************************************************************************)
(* Email._find_attachments: the count of each part, and the parts an       *)
(* att_id 'part:N' selects.                                                *)
(***************************************************************************)
\* whether the loop of _find_attachments skips the part without counting it
FindSkips(part) == IsMultipart(part.mimetype)

\* count when the loop has passed part i of msg
RECURSIVE FindCount(_, _)
FindCount(msg, i) ==
    IF i = 0 THEN 0
    ELSE FindCount(msg, i - 1) + (IF FindSkips(msg[i]) THEN 0 ELSE 1)

\* the parts _find_attachments('part:N') yields, as indices into msg
find_attachments(msg, n) ==
    { i \in 1..Len(msg) : ~FindSkips(msg[i]) /\ FindCount(msg, i) = n }

(***************************************************************************)
(* Email.get_message_tree(want).  want is [none, fields]: none stands for  *)
(* want=None.  A text block is [type, data, sig, enc, parent]: sig and enc *)
(* are the statuses of the block's crypto info, parent the part whose      *)
(* crypto info is the parent of the block's.                               *)
(***************************************************************************)
Want(fields) == [none |-> FALSE, fields |-> fields]
WantAll == [none |-> TRUE, fields |-> {}]

\* WANT_MSG_TREE_PGP = ('text_parts', 'crypto')
WANT_MSG_TREE_PGP == Want({"text_parts", "crypto"})

\* want is None or field in want
Wanted(want, field) == want.none \/ field \in want.fields

\* The statuses of mailpile.crypto.state: none is the default of a
\* SignatureInfo or EncryptionInfo.
SigStatuses == {"none", "verified", "invalid"}
EncStatuses == {"none", "decrypted", "missingkey"}

\* the aggregate of a message or of a tree: its statuses (sig, enc), the
\* statuses that have bubbled up into it (sbub, ebub), whether it is the
\* bubbly one of the message and, as history, the number of times
\* mix_bubbles was applied to it
Aggregate(sbub, ebub) ==
    [sig |-> "none", enc |-> "none", sbub |-> sbub, ebub |-> ebub,
     bubbly |-> TRUE, mixes |-> 0]

\* mix_bubbles, the rule for one kind of status: failed if a child that
\* bubbled up reports it, else ok if one reports it, else none
Mix(bubbles, failed, ok) ==
    IF failed \in bubbles THEN failed
    ELSE IF ok \in bubbles THEN ok
    ELSE "none"

\* signature_info.mix_bubbles(); encryption_info.mix_bubbles()
mix_bubbles(agg) ==
    [agg EXCEPT !.sig = Mix(agg.sbub, "invalid", "verified"),
                !.enc = Mix(agg.ebub, "missingkey", "decrypted"),
                !.mixes = @ + 1]

\* si.bubble_up(agg.signature): si is "null" for None
BubbleSig(agg, si) == IF si = "null" THEN agg ELSE [agg EXCEPT !.sbub = @ \cup {si}]

\* ei.bubble_up(agg.encryption): ei is "null" for None
BubbleEnc(agg, ei) == IF ei = "null" THEN agg ELSE [agg EXCEPT !.ebub = @ \cup {ei}]

\* what the parts of the message have bubbled up into msg.signature_info
\* and msg.encryption_info when ParseMessage returns it (UnwrapMimeCrypto)
MimeOutcomes ==
    { Aggregate({}, {}), Aggregate({"verified"}, {"decrypted"}),
      Aggregate({"verified", "invalid"}, {}) }

\* crypto is the aggregate of the message, which tree['crypto'] holds when
\* has_crypto
EmptyTree ==
    [has_text |-> FALSE, has_html |-> FALSE, has_att |-> FALSE, has_crypto |-> FALSE,
     text_parts |-> <<>>, html_parts |-> <<>>, attachments |-> <<>>,
     crypto |-> Aggregate({}, {})]

\* whether the walk of get_message_tree skips the part without counting it
TreeSkips(part) ==
    \/ IsMultipart(part.mimetype)
    \/ part.mimetype = "application/pgp-encrypted"
    \/ part.mimetype = "application/octet-stream" /\ part.crypted

\* count when the walk has passed part i of msg
RECURSIVE TreeCount(_, _)
TreeCount(msg, i) ==
    IF i = 0 THEN 0
    ELSE TreeCount(msg, i - 1) + (IF TreeSkips(msg[i]) THEN 0 ELSE 1)

\* the blocks parse_text_part gives for a payload, with their crypto info:
\* parent is the part whose crypto info is passed as crypto and, as
\* history, origin is the part the payload comes from
TextBlocks(text, parent, origin) ==
    LET blocks == parse_text_part(text)
    IN  [b \in 1..Len(blocks) |->
            [type |-> blocks[b].type, data |-> blocks[b].data,
             sig |-> "none", enc |-> "none", parent |-> parent, origin |-> origin]]

\* (start or payload.strip()) != ''
HasText(text) == \E k \in 1..Len(text) : ~IsBlank(text[k])

\* the walk over msg.walk(), from part i on; tree holds the lists built so far
RECURSIVE TreeWalk(_, _, _, _)
TreeWalk(msg, i, want, tree) ==
    IF i > Len(msg) THEN tree
    ELSE LET part == msg[i]
             next ==
                 IF TreeSkips(part) THEN tree
                 ELSE IF part.inline /\ part.mimetype \in {"text/plain", "text/html"}
                 THEN IF part.mimetype = "text/html"
                      THEN IF Wanted(want, "html_parts")
                           THEN [tree EXCEPT !.html_parts = Append(@, [part |-> i])]
                           ELSE tree
                      ELSE IF Wanted(want, "text_parts") /\ HasText(part.text)
                           THEN [tree EXCEPT
                                    !.text_parts = @ \o TextBlocks(part.text, i, i)]
                           ELSE tree
                 ELSE IF Wanted(want, "attachments")
                      THEN [tree EXCEPT !.attachments =
                               Append(@, [mimetype |-> part.mimetype,
                                          count |-> TreeCount(msg, i),
                                          part |-> i])]
                      ELSE tree
         IN  TreeWalk(msg, i + 1, want, next)

\* the plain text derived from the first HTML part when there are no text parts
HtmlFallback(msg, want, tree) ==
    IF /\ Wanted(want, "text_parts")
       /\ tree.html_parts # <<>>
       /\ tree.text_parts = <<>>
    THEN [tree EXCEPT !.text_parts =
             TextBlocks(msg[tree.html_parts[1].part].text, Len(msg),
                        tree.html_parts[1].part)]
    ELSE tree

get_message_tree(msg, want, mime) ==
    LET start == [EmptyTree EXCEPT !.has_text = Wanted(want, "text_parts"),
                                   !.has_html = Wanted(want, "html_parts"),
                                   !.has_att  = Wanted(want, "attachments")]
        built == HtmlFallback(msg, want, TreeWalk(msg, 1, want, start))
    IN  [built EXCEPT !.has_crypto = Wanted(want, "crypto"),
                      !.crypto = mix_bubbles(mime)]

(***************************************************************************)
(* Email.evaluate_pgp, one iteration of its loop over tree['text_parts'].  *)
(* The state st of an iteration is [tree, pgpdata, calls, si, ei, exc];    *)
(* si and ei are "null" for None.  pgpdata holds references to the parts;  *)
(* here, their indices in tree['text_parts'].                              *)
(***************************************************************************)
\* what gpg.verify can do: raise, or return a signature status
VerifyOutcomes == {"raise", "verified", "invalid"}

\* what gpg.decrypt can do: raise, or return (si, ei, text)
DecryptOutcomes ==
    { [raise |-> TRUE,  si |-> "none", ei |-> "none"],
      [raise |-> FALSE, si |-> "none", ei |-> "decrypted"],
      [raise |-> FALSE, si |-> "verified", ei |-> "decrypted"],
      [raise |-> FALSE, si |-> "none", ei |-> "missingkey"] }

\* the text decode_text gives for the plaintext gpg.decrypt returned
L_PLAINTEXT == Line("the decrypted text", "\n")

\* ''.join([p['data'] for p in pgpdata])
RECURSIVE JoinParts(_, _)
JoinParts(text_parts, pgpdata) ==
    IF pgpdata = <<>> THEN <<>>
    ELSE text_parts[Head(pgpdata)].data \o JoinParts(text_parts, Tail(pgpdata))

\* pgpdata[k]['data'] = data (k counts from 0)
SetData(st, k, data) ==
    [st EXCEPT !.tree.text_parts[st.pgpdata[k + 1]].data = data]

\* if part['type'] in ('pgpbegin', 'pgptext'): pgpdata.append(part)
DecryptCollect(st, i) == [st EXCEPT !.pgpdata = Append(@, i)]

BeginSignedAppending(st, i) == [st EXCEPT !.pgpdata = Append(@, i)]

\* if part['type'] == 'pgpbeginsigned': pgpdata = [part]
BeginSigned(st, i) == [st EXCEPT !.pgpdata = <<i>>]

\* the check_sigs branch for part i; v is what gpg.verify does if called
VerifyBranch(st, i, v) ==
    LET type == st.tree.text_parts[i].type
    IN  IF type = "pgpbeginsigned" THEN BeginSigned(st, i)
        ELSE IF type = "pgpsignedtext" THEN [st EXCEPT !.pgpdata = Append(@, i)]
        ELSE IF type = "pgpsignature" THEN
            LET pd   == Append(st.pgpdata, i)
                st1  == [st EXCEPT !.pgpdata = pd,
                                   !.calls = Append(@,
                                       [op |-> "verify", at |-> i,
                                        arg |-> JoinParts(st.tree.text_parts, pd),
                                        target |-> IF Len(pd) > 1 THEN pd[2] ELSE 0,
                                        raised |-> v = "raise",
                                        si |-> IF v = "raise" THEN "null" ELSE v])]
            IN  IF v = "raise" THEN st1
                ELSE LET st2 == [SetData(st1, 0, <<>>) EXCEPT !.si = v]
                     IN  IF Len(pd) < 2 THEN st2
                         ELSE LET st3 == [st2 EXCEPT !.tree.text_parts[pd[2]].sig = v]
                              IN  IF Len(pd) < 3 THEN st3
                                  ELSE SetData(st3, 2, <<>>)
        ELSE st

DecryptRaisedAfterBlanking(st) == [SetData(st, 0, <<>>) EXCEPT !.exc = "GnuPGError"]

\* si, ei, text = gpg.decrypt(data) raises: no statement of the branch
\* after the call runs, and no handler catches the exception
DecryptRaised(st) == [st EXCEPT !.exc = "GnuPGError"]

\* the decrypt branch for part i; d is what gpg.decrypt does if called
DecryptBranch(st, i, d) ==
    LET type == st.tree.text_parts[i].type
    IN  IF type \in {"pgpbegin", "pgptext"} THEN DecryptCollect(st, i)
        ELSE IF type = "pgpend" THEN
            LET pd   == Append(st.pgpdata, i)
                st1  == [st EXCEPT !.pgpdata = pd,
                                   !.calls = Append(@,
                                       [op |-> "decrypt", at |-> i,
                                        arg |-> JoinParts(st.tree.text_parts, pd),
                                        target |-> IF Len(pd) > 1 THEN pd[2] ELSE 0,
                                        raised |-> d.raise,
                                        si |-> IF d.raise THEN "null" ELSE d.si])]
            IN  IF d.raise THEN DecryptRaised(st1)
                ELSE IF Len(pd) < 2 THEN [st1 EXCEPT !.exc = "IndexError"]
                ELSE LET st2 == [st1 EXCEPT !.si = d.si, !.ei = d.ei,
                                            !.tree.text_parts[pd[2]].enc = d.ei,
                                            !.tree.text_parts[pd[2]].sig = d.si]
                     IN  IF d.ei # "decrypted" THEN st2
                         ELSE IF Len(pd) < 3 THEN [st2 EXCEPT !.exc = "IndexError"]
                         ELSE SetData(SetData(SetData(st2, 0, <<>>),
                                              1, <<L_PLAINTEXT>>), 2, <<>>)
        ELSE st

\* if (si or ei) and 'crypto' not in tree: tree['crypto'] = {...}
FreshCrypto(st) ==
    IF (st.si # "null" \/ st.ei # "null") /\ ~st.tree.has_crypto
        THEN [st EXCEPT !.tree.has_crypto = TRUE,
                        !.tree.crypto = [Aggregate({}, {}) EXCEPT !.bubbly = FALSE]]
        ELSE st

\* Bubbling up!
BubbleUp(st) ==
    [FreshCrypto(st) EXCEPT !.tree.crypto = BubbleEnc(BubbleSig(@, st.si), st.ei)]

\* the body of the loop for part i
EvaluatePart(tree, pgpdata, calls, opts, i, v, d) ==
    LET st0 == [tree |-> tree, pgpdata |-> pgpdata, calls |-> calls,
                si |-> "null", ei |-> "null", exc |-> "none"]
        st1 == IF opts.check_sigs THEN VerifyBranch(st0, i, v) ELSE st0
        st2 == IF opts.decrypt THEN DecryptBranch(st1, i, d) ELSE st1
    IN  IF st2.exc # "none" THEN st2 ELSE BubbleUp(st2)

\* tree['crypto']['signature'].mix_bubbles() needs tree['crypto']
FinishException(tree) == IF tree.has_crypto THEN "none" ELSE "KeyError"

\* tree['crypto']['signature'].mix_bubbles()
\* tree['crypto']['encryption'].mix_bubbles()
FinishMix(tree) ==
    IF tree.has_crypto THEN [tree EXCEPT !.crypto = mix_bubbles(@)] ELSE tree

(***************************************************************************)
(* The parse cache: GLOBAL_PARSE_CACHE, ParseMessage, ClearParseCache,     *)
(* Email.update_parse_cache.  An entry is [cid, pm, msg, at]: the tuple    *)
(* (cache_id, pgpmime, message) and, as history, the time it was stored.   *)
(* Message objects are numbered from 1; NONE stands for None.              *)
(***************************************************************************)
NONE == -1

\* GLOBAL_PARSE_CACHE[24:] = []
CACHE_KEEP == 24

Entry(cid, pm, msg, at) == [cid |-> cid, pm |-> pm, msg |-> msg, at |-> at]

\* GPC[i] = (None, None, None)
Tombstone == Entry(NONE, FALSE, NONE, 0)

\* if not GnuPG: pgpmime = False
HaveGnuPG == TRUE

MatchesAnyMode(e, cache_id, pgpmime) == e.cid = cache_id

\* cid == cache_id and pm == pgpmime
Matches(e, cache_id, pgpmime) == e.cid = cache_id /\ e.pm = pgpmime

\* the index of the entry the lookup loop returns from, or 0
RECURSIVE FirstMatch(_, _, _, _)
FirstMatch(cache, i, cache_id, pgpmime) ==
    IF i > Len(cache) THEN 0
    ELSE IF Matches(cache[i], cache_id, pgpmime) THEN i
    ELSE FirstMatch(cache, i + 1, cache_id, pgpmime)

InsertWithoutTruncating(cache, e) == <<e>> \o cache

\* GLOBAL_PARSE_CACHE[24:] = []
\* GLOBAL_PARSE_CACHE[:0] = [(cache_id, pgpmime, message)]
Insert(cache, e) ==
    <<e>> \o SubSeq(cache, 1, IF Len(cache) < CACHE_KEEP THEN Len(cache)
                                                          ELSE CACHE_KEEP)

\* a result of ParseMessage: the cache after it, the message returned
\* (NONE for None), whether it came from the cache, the number of message
\* objects created, the number of entries inserted
Result(cache, ret, hit, made, inserted) ==
    [cache |-> cache, ret |-> ret, hit |-> hit, made |-> made, inserted |-> inserted]

\* ParseMessage(fd, cache_id, update_cache, pgpmime=False): a call with
\* pgpmime false, also the one ParseMessage makes of itself.  readable is
\* whether fd gives a file; fresh is the object the parser would create.
ParsePlain(cache, cache_id, update_cache, readable, fresh, now) ==
    LET i == IF cache_id # NONE /\ ~update_cache
                 THEN FirstMatch(cache, 1, cache_id, FALSE) ELSE 0
    IN  IF i > 0 THEN Result(cache, cache[i].msg, TRUE, 0, 0)
        ELSE IF ~readable THEN Result(cache, NONE, FALSE, 0, 0)
        ELSE IF cache_id # NONE
            THEN Result(Insert(cache, Entry(cache_id, FALSE, fresh, now)),
                        fresh, FALSE, 1, 1)
        ELSE Result(cache, fresh, FALSE, 1, 0)

NoCopy(message, next) == message

\* message = copy.deepcopy(message): one more object, the next fresh one
DeepCopy(message, next) == next

\* ParseMessage(fd, cache_id, update_cache, pgpmime)
parse_message(cache, cache_id, update_cache, pgpmime0, readable, fresh, now) ==
    LET pgpmime == pgpmime0 /\ HaveGnuPG
        i == IF cache_id # NONE /\ ~update_cache
                 THEN FirstMatch(cache, 1, cache_id, pgpmime) ELSE 0
    IN  IF i > 0 THEN Result(cache, cache[i].msg, TRUE, 0, 0)
        ELSE IF ~pgpmime
            THEN ParsePlain(cache, cache_id, update_cache, readable, fresh, now)
        ELSE LET inner == ParsePlain(cache, cache_id, FALSE, readable, fresh, now)
             IN  IF inner.ret = NONE THEN Result(inner.cache, NONE, FALSE, 0, 0)
                 ELSE IF cache_id # NONE
                     THEN Result(Insert(inner.cache,
                                        Entry(cache_id, TRUE,
                                              DeepCopy(inner.ret, fresh + inner.made), now)),
                                 DeepCopy(inner.ret, fresh + inner.made), FALSE,
                                 inner.made + 1, inner.inserted + 1)
                 ELSE Result(inner.cache, inner.ret, FALSE, inner.made, 0)

\* the test of ClearParseCache for one entry; 0 and None are false as cache_id
ClearTest(e, cache_id, pgpmime, full) ==
    \/ full
    \/ pgpmime /\ e.pm
    \/ cache_id # NONE /\ cache_id # 0 /\ e.cid = cache_id

\* ClearParseCache(cache_id, pgpmime, full)
clear_parse_cache(cache, cache_id, pgpmime, full) ==
    [i \in 1..Len(cache) |->
        IF ClearTest(cache[i], cache_id, pgpmime, full) THEN Tombstone ELSE cache[i]]

\* Email.update_parse_cache(newmsg) of the e-mail at msg_idx_pos
update_parse_cache(cache, msg_idx_pos, newmsg, now) ==
    [i \in 1..Len(cache) |->
        IF cache[i].cid = msg_idx_pos
            THEN Entry(msg_idx_pos, FALSE, newmsg, now) ELSE cache[i]]

\* the (cache_id, pgpmime, message) tuples of the live entries of a cache
Tuples(cache) ==
    { <<cache[i].cid, cache[i].pm, cache[i].msg>> :
          i \in { j \in 1..Len(cache) : cache[j].cid # NONE } }

\* the message objects the cache holds
CachedMsgs(cache) == {cache[i].msg : i \in 1..Len(cache)} \ {NONE}

\* the record of an operation: its arguments, the message returned, whether
\* it came from the cache, the number of entries inserted
Op(op, cid, pm, update, ret, hit, inserted) ==
    [op |-> op, cid |-> cid, pm |-> pm, update |-> update, ret |-> ret,
     hit |-> hit, inserted |-> inserted]

NoOp == Op("none", NONE, FALSE, FALSE, NONE, FALSE, 0)

(***************************************************************************)
(* The parse cache under concurrent callers.  Each thread runs one call at *)
(* a time; a step is one statement that reads or writes the cache, or the  *)
(* acquisition of GLOBAL_PARSE_CACHE_LOCK.  MboxLock comes from            *)
(* mailpile.util: a mutual exclusion lock, released when the with block    *)
(* is left.                                                                *)
(***************************************************************************)
Threads == {1, 2}

\* the locals of a thread: pc, the arguments of the call (cid, update, pm,
\* full), inner (the call is the one ParseMessage makes of itself), the
\* loop index i and range end n, the message at hand, the calls made
Local(pc, cid, update, pm, full, inner, i, n, msg, calls) ==
    [pc |-> pc, cid |-> cid, update |-> update, pm |-> pm, full |-> full,
     inner |-> inner, i |-> i, n |-> n, msg |-> msg, calls |-> calls]

\* a thread between calls
Resting(calls) == Local("idle", NONE, FALSE, FALSE, FALSE, FALSE, 0, 0, NONE, calls)

\* the statements of a with GLOBAL_PARSE_CACHE_LOCK block
LockedPcs == {"lookup_scan", "truncate", "prepend", "clear_scan", "update_scan"}

\* the statements that wait for the lock, and the statement each one enters
WaitingPcs == {"lookup_lock", "insert_lock", "clear_lock", "update_lock"}

Entered(pc) ==
    CASE pc = "lookup_lock" -> "lookup_scan"
      [] pc = "insert_lock" -> "truncate"
      [] pc = "clear_lock" -> "clear_scan"
      [] pc = "update_lock" -> "update_scan"

\* no update_parse_cache call has begun
NoUpdate == [updated |-> FALSE, cached |-> {}, held |-> {}]

\* update_parse_cache enters its with block: the messages the cache holds
\* and those the ParseMessage calls of the other threads have made and are
\* about to store
UpdateBegins(hist, cache, thr, t) ==
    [hist EXCEPT !.cached = @ \cup CachedMsgs(cache),
                 !.held = @ \cup {thr[u].msg : u \in {v \in DOMAIN thr :
                                       v # t /\ thr[v].pc = "insert_lock"}}]

LookupStartUnlocked == "lookup_scan"

\* the lookup of ParseMessage begins by taking the lock
LookupStart == "lookup_lock"

\* MboxLock: the lock is taken only when no thread holds it
CanAcquire(holder) == holder = 0

\* the message object thread t creates in its call: an object no other call
\* creates and the cache did not hold at the start
FreshMsg(t, l) == 100 * t + 2 * l.calls + (IF l.pm THEN 1 ELSE 0)

\* return message: the inner call returns into the outer one, which copies
\* the message and stores it with pgpmime true; any other call is over
Returning(t, l, msg) ==
    IF ~l.inner THEN Resting(l.calls)
    ELSE IF msg = NONE THEN Resting(l.calls)
    ELSE IF l.cid # NONE
        THEN [l EXCEPT !.pc = "insert_lock", !.inner = FALSE, !.pm = TRUE,
                       !.msg = FreshMsg(t, [l EXCEPT !.pm = TRUE])]
    ELSE Resting(l.calls)

(***************************************************************************)
(* AddressHeaderParser.  A string is the sequence of its characters.  The  *)
(* headers of the model hold no backslash, no '?' and no non-ASCII         *)
(* character, so no escape, no RFC 2047 encoded word and no charset        *)
(* decoding occurs: unescape and unquote leave their argument as it is.    *)
(***************************************************************************)
Lower == {"a", "b", "c", "d", "e", "f", "g", "h", "i", "j", "k", "l", "m",
          "n", "o", "p", "q", "r", "s", "t", "u", "v", "w", "x", "y", "z"}
Upper == {"A", "B", "C", "D", "E", "F", "G", "H", "I", "J", "K", "L", "M",
          "N", "O", "P", "Q", "R", "S", "T", "U", "V", "W", "X", "Y", "Z"}
Digit == {"0", "1", "2", "3", "4", "5", "6", "7", "8", "9"}
Alnum == Lower \cup Upper \cup Digit

\* \s
Space == {" ", "\t", "\n", "\r", "\f"}

\* \w
WordChar == Alnum \cup {"_"}

\* string[a:b] with 1-based inclusive bounds
Slice(str, a, b) == SubSeq(str, a, b)

\* the first index i >= p with str[i] in set, or 0
RECURSIVE IndexIn(_, _, _)
IndexIn(str, p, set) ==
    IF p > Len(str) THEN 0
    ELSE IF str[p] \in set THEN p
    ELSE IndexIn(str, p + 1, set)

\* the last index i <= p with str[i] in set, or 0
RECURSIVE LastIndexIn(_, _, _)
LastIndexIn(str, p, set) ==
    IF p < 1 THEN 0
    ELSE IF str[p] \in set THEN p
    ELSE LastIndexIn(str, p - 1, set)

\* the end of the longest run of characters of set that starts at p (p - 1 if none)
RECURSIVE RunEnd(_, _, _)
RunEnd(str, p, set) ==
    IF p <= Len(str) /\ str[p] \in set THEN RunEnd(str, p + 1, set) ELSE p - 1

\* the end of the longest run of characters not in set that starts at p
RECURSIVE RunEndNot(_, _, _)
RunEndNot(str, p, set) ==
    IF p <= Len(str) /\ str[p] \notin set THEN RunEndNot(str, p + 1, set) ELSE p - 1

\* str.startswith(prefix)
StartsWith(str, prefix) ==
    Len(str) >= Len(prefix) /\ Slice(str, 1, Len(prefix)) = prefix

\* str.strip()
Strip(str) ==
    LET a == RunEnd(str, 1, Space) + 1
        b == LastIndexIn(str, Len(str), {str[i] : i \in 1..Len(str)} \ Space)
    IN  IF a > Len(str) THEN <<>> ELSE Slice(str, a, b)

\* sep.join(list)
RECURSIVE Join(_, _)
Join(list, sep) ==
    IF list = <<>> THEN <<>>
    ELSE IF Len(list) = 1 THEN list[1]
    ELSE list[1] \o sep \o Join(Tail(list), sep)

\* str.replace(' ' + c, c), c one character
RECURSIVE DropSpaceBefore(_, _)
DropSpaceBefore(str, c) ==
    IF str = <<>> THEN <<>>
    ELSE IF Len(str) >= 2 /\ str[1] = " " /\ str[2] = c
        THEN <<c>> \o DropSpaceBefore(Slice(str, 3, Len(str)), c)
    ELSE <<str[1]>> \o DropSpaceBefore(Tail(str), c)

(***************************************************************************)
(* RE_TOKENIZER and _tokenize.                                             *)
(***************************************************************************)
\* open [^open close]* close at p: the index of the closing character, or 0
Bracketed(str, p, open, close) ==
    IF str[p] # open THEN 0
    ELSE LET j == IndexIn(str, p + 1, {open, close})
         IN  IF j > 0 /\ str[j] = close THEN j ELSE 0

\* q [^q]* q at p: the index of the closing quote, or 0
Quoted(str, p, q) ==
    IF str[p] # q THEN 0 ELSE IndexIn(str, p + 1, {q})

\* the end of the token RE_TOKENIZER matches at p: the first alternative
\* that matches, in the order of the pattern
TokenEnd(str, p) ==
    IF Bracketed(str, p, "<", ">") > 0 THEN Bracketed(str, p, "<", ">")
    ELSE IF Bracketed(str, p, "(", ")") > 0 THEN Bracketed(str, p, "(", ")")
    ELSE IF Bracketed(str, p, "[", "]") > 0 THEN Bracketed(str, p, "[", "]")
    ELSE IF Quoted(str, p, "\"") > 0 THEN Quoted(str, p, "\"")
    ELSE IF Quoted(str, p, "'") > 0 THEN Quoted(str, p, "'")
    ELSE IF str[p] \in {",", ";"} THEN p
    ELSE IF str[p] \in Space THEN RunEnd(str, p, Space)
    ELSE RunEndNot(str, p, Space \cup {";", ","})

\* re.findall(RE_TOKENIZER, string), from p on
RECURSIVE FindAllTokens(_, _)
FindAllTokens(str, p) ==
    IF p > Len(str) THEN <<>>
    ELSE <<Slice(str, p, TokenEnd(str, p))>> \o FindAllTokens(str, TokenEnd(str, p) + 1)

\* re.sub('(\S)(<)', '\1 \2', string), from p on
RECURSIVE MungeTokenSpacers(_, _)
MungeTokenSpacers(str, p) ==
    IF p > Len(str) THEN <<>>
    ELSE IF p < Len(str) /\ str[p] \notin Space /\ str[p + 1] = "<"
        THEN <<str[p], " ", "<">> \o MungeTokenSpacers(str, p + 2)
    ELSE <<str[p]>> \o MungeTokenSpacers(str, p + 1)

\* re.sub('[<>"]', '', string)
MungeTokenStrippers(str) == SelectSeq(str, LAMBDA c : c \notin {"<", ">", "\""})

\* munge is False (here ""), '2' or '3'
Truthy(munge) == munge # ""

\* munge == 3 (_tokenize), _pass == 3 (_parse): a str is compared with the
\* int 3, and a str never equals an int
EqualsInt3(munge) == FALSE

\* _tokenize(string, munge)
tokenize(str, munge) ==
    LET spaced   == IF Truthy(munge) THEN MungeTokenSpacers(str, 1) ELSE str
        stripped == IF Truthy(munge) /\ EqualsInt3(munge)
                        THEN MungeTokenStrippers(spaced) ELSE spaced
    IN  FindAllTokens(stripped, 1)

(***************************************************************************)
(* _clean and _group.                                                      *)
(***************************************************************************)
MAILTO_BRACKET == <<"[", "m", "a", "i", "l", "t", "o", ":">>

\* _clean(token)
clean(token) ==
    IF token # <<>> /\ token[1] \in {"\"", "'"}
        THEN IF token[1] = token[Len(token)]
                 THEN Slice(token, 2, Len(token) - 1)
                 ELSE token
    ELSE IF StartsWith(token, MAILTO_BRACKET) /\ token[Len(token)] = "]"
        THEN <<"<">> \o Slice(token, 9, Len(token) - 1) \o <<">">>
    ELSE IF token # <<>> /\ token[1] = "[" /\ token[Len(token)] = "]"
        THEN Slice(token, 2, Len(token) - 1)
    ELSE token

\* '@' in g
HasAtSign(str) == \E i \in 1..Len(str) : str[i] = "@"

UNDISCLOSED == <<"u", "n", "d", "i", "s", "c", "l", "o", "s", "e", "d">>

\* c.lower()
LowerCase(c) ==
    CASE c = "A" -> "a" [] c = "B" -> "b" [] c = "C" -> "c" [] c = "D" -> "d"
      [] c = "E" -> "e" [] c = "F" -> "f" [] c = "G" -> "g" [] c = "H" -> "h"
      [] c = "I" -> "i" [] c = "J" -> "j" [] c = "K" -> "k" [] c = "L" -> "l"
      [] c = "M" -> "m" [] c = "N" -> "n" [] c = "O" -> "o" [] c = "P" -> "p"
      [] c = "Q" -> "q" [] c = "R" -> "r" [] c = "S" -> "s" [] c = "T" -> "t"
      [] c = "U" -> "u" [] c = "V" -> "v" [] c = "W" -> "w" [] c = "X" -> "x"
      [] c = "Y" -> "y" [] c = "Z" -> "z"
      [] OTHER -> c

\* re.match(RE_IGNORED_GROUP_TOKENS, g): g starts with 'undisclosed', any case
IsIgnoredGroupToken(str) ==
    /\ Len(str) >= Len(UNDISCLOSED)
    /\ \A i \in 1..Len(UNDISCLOSED) : LowerCase(str[i]) = UNDISCLOSED[i]

GroupStepAlwaysSplitting(groups, token0) ==
    IF Strip(token0) \in {<<",">>, <<";">>} /\ groups[Len(groups)] # <<>>
        THEN Append(groups, <<>>)
    ELSE IF Strip(token0) # <<>>
        THEN [groups EXCEPT ![Len(groups)] = Append(@, clean(Strip(token0)))]
    ELSE groups

\* one iteration of the loop of _group: groups is never empty
GroupStep(groups, token0) ==
    LET token == Strip(token0)
        n     == Len(groups)
        kept  == IF token # <<>>
                     THEN [groups EXCEPT ![n] = Append(@, clean(token))]
                     ELSE groups
    IN  IF token \in {<<",">>, <<";">>} /\ groups[n] # <<>>
        THEN IF \E k \in 1..Len(groups[n]) : HasAtSign(groups[n][k])
                 THEN Append(groups, <<>>)
             ELSE IF \E k \in 1..Len(groups[n]) : IsIgnoredGroupToken(groups[n][k])
                 THEN [groups EXCEPT ![n] = <<>>]
             ELSE kept
        ELSE kept

RECURSIVE GroupFold(_, _)
GroupFold(groups, tokens) ==
    IF tokens = <<>> THEN groups
    ELSE GroupFold(GroupStep(groups, Head(tokens)), Tail(tokens))

\* _group(tokens, munge)
group(tokens) ==
    LET groups == GroupFold(<< <<>> >>, tokens)
    IN  IF groups[Len(groups)] = <<>>
            THEN Slice(groups, 1, Len(groups) - 1)
            ELSE groups

(***************************************************************************)
(* _find_address and _find_addresses.                                      *)
(***************************************************************************)
\* str[:1] and str[-1:]
FirstChar(str) == IF str = <<>> THEN "" ELSE str[1]
LastChar(str) == IF str = <<>> THEN "" ELSE str[Len(str)]

\* the characters RE_MAYBE_EMAIL refuses before the '@'
NotLocal == {"(", ")", "<", ">", "@", ",", ";", ":", "\\", "\"", "[", "]"} \cup Space

\* the characters RE_MAYBE_EMAIL accepts in the domain
DomainChars == Alnum \cup {"_", ".", "-"}

\* local@domain or local@domain#key, the whole string
MaybeEmailExact(str) ==
    LET at   == IndexIn(str, 1, {"@"})
        dend == RunEnd(str, at + 1, DomainChars)
    IN  /\ at > 1
        /\ \A i \in 1..(at - 1) : str[i] \notin NotLocal
        /\ dend > at
        /\ \/ dend = Len(str)
           \/ /\ dend + 1 < Len(str)
              /\ str[dend + 1] = "#"
              /\ RunEnd(str, dend + 2, Alnum) = Len(str)

\* re.match(RE_MAYBE_EMAIL, str): '$' also matches before a final newline
MaybeEmail(str) ==
    \/ MaybeEmailExact(str)
    \/ LastChar(str) = "\n" /\ MaybeEmailExact(Slice(str, 1, Len(str) - 1))

MAILTO == <<"m", "a", "i", "l", "t", "o", ":">>

\* '\bmailto:' (any case) matches at p
MailtoAt(str, p) ==
    /\ p + Len(MAILTO) - 1 <= Len(str)
    /\ \A i \in 1..Len(MAILTO) : LowerCase(str[p + i - 1]) = MAILTO[i]
    /\ p = 1 \/ str[p - 1] \notin WordChar

\* re.sub(RE_MUNGE_STRIP, '', str), from p on
RECURSIVE MungeStrip(_, _)
MungeStrip(str, p) ==
    IF p > Len(str) THEN <<>>
    ELSE IF MailtoAt(str, p) THEN MungeStrip(str, p + Len(MAILTO))
    ELSE IF str[p] \in Space \cup {"\"", "'"} THEN MungeStrip(str, p + 1)
    ELSE IF str[p] = "?" /\ (p = Len(str) \/ (p = Len(str) - 1 /\ str[p + 1] = "\n"))
        THEN MungeStrip(str, p + 1)
    ELSE <<str[p]>> \o MungeStrip(str, p + 1)

\* munger(string)
munger(str, munge) == IF Truthy(munge) THEN MungeStrip(str, 1) ELSE str

\* g[a:b] = [x], a and b 0-based as in the code
Merge(g, a, b, x) == Slice(g, 1, a) \o <<x>> \o Slice(g, b + 1, Len(g))

\* the loop that rejoins 'email' '@domain.com': i is 0-based and runs over
\* range(0, n), n the length of g before the loop
RECURSIVE Rejoin(_, _, _)
Rejoin(g, i, n) ==
    IF i >= n THEN g
    ELSE IF i > 0 /\ i < Len(g) /\ FirstChar(g[i + 1]) = "@"
        THEN Rejoin(Merge(g, i - 1, i + 1, g[i] \o g[i + 1]), i + 1, n)
    ELSE IF i < Len(g) - 1 /\ LastChar(g[i + 1]) = "@"
        THEN Rejoin(Merge(g, i, i + 2, g[i + 1] \o g[i + 2]), i + 1, n)
    ELSE Rejoin(g, i + 1, n)

\* AddressInfo(email, fn, keys), keys None (here <<>>) or one fingerprint
AddressInfo(address, fn, keys) == [address |-> address, fn |-> fn, keys |-> keys]

\* the token without the parentheses around it
Unparen(tok) ==
    IF FirstChar(tok) = "(" /\ LastChar(tok) = ")"
        THEN Slice(tok, 2, Len(tok) - 1) ELSE tok

\* the tokens of g but the i-th (1-based)
Others(g, i) == Slice(g, 1, i - 1) \o Slice(g, i + 1, Len(g))

SplitKeyKeepingSuffix(email, fn, at, hash) ==
    IF hash > at
        THEN AddressInfo(email, fn, <<Slice(email, hash + 1, Len(email))>>)
        ELSE AddressInfo(email, fn, <<>>)

\* AddressInfo(email, rest.strip(), keys): the '#' after which the key
\* stands is the last one, and it counts if it stands after the '@'
SplitKey(email, fn, at, hash) ==
    IF hash > at
        THEN AddressInfo(Slice(email, 1, hash - 1), fn, <<Slice(email, hash + 1, Len(email))>>)
        ELSE AddressInfo(email, fn, <<>>)

\* rest and email of email_at, g without the parentheses
RestAndEmail(g, i) ==
    SplitKey(g[i],
             Strip(DropSpaceBefore(DropSpaceBefore(Join(Others(g, i), <<" ">>), ","), ";")),
             IndexIn(g[i], 1, {"@"}),
             LastIndexIn(g[i], Len(g[i]), {"#"}))

\* email_at(i), i 1-based
email_at(g, i) == RestAndEmail([j \in 1..Len(g) |-> Unparen(g[j])], i)

\* <email@domain.com> at i
AngleEmail(g, i, munge) ==
    /\ FirstChar(g[i]) = "<"
    /\ LastChar(g[i]) = ">"
    /\ MaybeEmail(munger(Slice(g[i], 2, Len(g[i]) - 1), munge))

\* bare email@domain.com at i
BareEmail(g, i, munge) == MaybeEmail(munger(g[i], munge))

\* the first i >= p that the 1st search accepts, or 0
RECURSIVE FirstAngle(_, _, _)
FirstAngle(g, p, munge) ==
    IF p > Len(g) THEN 0
    ELSE IF AngleEmail(g, p, munge) THEN p
    ELSE FirstAngle(g, p + 1, munge)

\* the first i >= p that the 2nd search accepts, or 0
RECURSIVE FirstBare(_, _, _)
FirstBare(g, p, munge) ==
    IF p > Len(g) THEN 0
    ELSE IF BareEmail(g, p, munge) THEN p
    ELSE FirstBare(g, p + 1, munge)

\* the outcome of _find_address: found is None (here <<>>), [] (here <<>>
\* too: both are dropped by _find_addresses) or one AddressInfo
Found(raised, found) == [raised |-> raised, found |-> found]

\* g[i] = maybemail; return email_at(i)
FoundAt(g, i, maybemail) == Found(FALSE, <<email_at([g EXCEPT ![i] = maybemail], i)>>)

SearchesBareFirst(g, a, b, raise, munge) ==
    IF b > 0 THEN FoundAt(g, b, munger(g[b], munge))
    ELSE IF a > 0 THEN FoundAt(g, a, munger(Slice(g[a], 2, Len(g[a]) - 1), munge))
    ELSE Found(raise, <<>>)

\* the two searches, a and b the indices they stop at
Searches(g, a, b, raise, munge) ==
    IF a > 0 THEN FoundAt(g, a, munger(Slice(g[a], 2, Len(g[a]) - 1), munge))
    ELSE IF b > 0 THEN FoundAt(g, b, munger(g[b], munge))
    ELSE Found(raise, <<>>)

\* _find_address after the rejoin loop
FindIn(g, raise, munge) ==
    Searches(g, FirstAngle(g, 1, munge), FirstBare(g, 1, munge), raise, munge)

\* _find_address(g, _raise, munge)
find_address(g, raise, munge) ==
    IF g = <<>> THEN Found(FALSE, <<>>)
    ELSE IF Truthy(munge) THEN FindIn(Rejoin(g, 0, Len(g)), raise, munge)
    ELSE FindIn(g, raise, munge)

\* [a for a in alist if a]
Kept(a, r) == IF r.raised THEN r ELSE Found(FALSE, a.found \o r.found)

\* the list comprehension, a the outcome for the first group: its
\* ValueError ends the comprehension
RECURSIVE find_addresses(_, _, _)
FindRest(a, groups, raise, munge) ==
    IF a.raised THEN a ELSE Kept(a, find_addresses(groups, raise, munge))

\* _find_addresses(groups, _raise, munge)
find_addresses(groups, raise, munge) ==
    IF groups = <<>> THEN Found(FALSE, <<>>)
    ELSE FindRest(find_address(Head(groups), raise, munge), Tail(groups), raise, munge)

(***************************************************************************)
(* _parse.                                                                 *)
(***************************************************************************)
\* what a pass leaves: _tokens, _groups and, unless it raised, the list
PassResult(tokens, groups, fa) ==
    [tokens |-> tokens, groups |-> groups, raised |-> fa.raised, list |-> fa.found]

PassGroups(tokens, groups, munge, raise) ==
    PassResult(tokens, groups, find_addresses(groups, raise, munge))

PassTokens(tokens, munge, raise) == PassGroups(tokens, group(tokens), munge, raise)

\* one pass: _tokenize, _group and _find_addresses
Pass(data, munge, raise) == PassTokens(tokenize(data, munge), munge, raise)

\* the parser after _parse: outcome is "returned" or "raised", passes the
\* passes that ran
Parsed(outcome, list, pass, passes) ==
    [outcome |-> outcome, list |-> list, tokens |-> pass.tokens,
     groups |-> pass.groups, passes |-> passes]

\* the third pass is over
AfterPass3(p3, raise) ==
    IF ~p3.raised THEN Parsed("returned", p3.list, p3, <<"1", "2", "3">>)
    ELSE IF EqualsInt3("3") /\ raise THEN Parsed("raised", <<>>, p3, <<"1", "2", "3">>)
    ELSE Parsed("returned", <<>>, p3, <<"1", "2", "3">>)

\* the second pass is over
AfterPass2(p2, data, raise) ==
    IF ~p2.raised THEN Parsed("returned", p2.list, p2, <<"1", "2">>)
    ELSE IF EqualsInt3("2") /\ raise THEN Parsed("raised", <<>>, p2, <<"1", "2">>)
    ELSE AfterPass3(Pass(data, "3", raise), raise)

\* the first pass is over
AfterPass1(p1, data, strict, raise) ==
    IF ~p1.raised THEN Parsed("returned", p1.list, p1, <<"1">>)
    ELSE IF strict /\ raise THEN Parsed("raised", <<>>, p1, <<"1">>)
    ELSE IF strict THEN Parsed("returned", <<>>, p1, <<"1">>)
    ELSE AfterPass2(Pass(data, "2", raise), data, raise)

parseIgnoringStrict(data, strict, raise) ==
    AfterPass1(Pass(data, "", TRUE), data, FALSE, raise)

\* _parse(data, strict, _raise)
parse(data, strict, raise) == AfterPass1(Pass(data, "", ~strict), data, strict, raise)

(***************************************************************************)
(* The idle values of the variables of each component: the values they     *)
(* have before the component is used.                                      *)
(***************************************************************************)
TextIdle ==
    /\ tp_input = <<>>
    /\ tp_block = "body"
    /\ tp_parse = <<>>
    /\ tp_clines = <<>>

TreeIdle ==
    /\ ev_msg = <<>>
    /\ ev_tree = EmptyTree
    /\ ev_orig = <<>>
    /\ ev_opts = [check_sigs |-> FALSE, decrypt |-> FALSE]
    /\ ev_pgpdata = <<>>
    /\ ev_i = 0
    /\ ev_pc = "msg"
    /\ ev_exc = "none"
    /\ ev_calls = <<>>


CacheIdle ==
    /\ gpc = <<>>
    /\ pc_next = 1
    /\ pc_clock = 0
    /\ pc_stored = {}
    /\ pc_cleared = {}
    /\ pc_last = NoOp

\* no thread is in a call
LockIdle ==
    /\ lk_holder = 0
    /\ lk_thr = [t \in Threads |-> Resting(0)]
    /\ lk_hist = NoUpdate

\* _reset with no data: an AddressHeaderParser that has parsed nothing
AddrIdle ==
    /\ ah_raw_data = <<>>
    /\ ah_args = [strict |-> FALSE, raise |-> FALSE]
    /\ ah_pc = "new"
    /\ ah_list = <<>>
    /\ ah_tokens = <<>>
    /\ ah_groups = <<>>
    /\ ah_passes = <<>>

(***************************************************************************)
(* The classifier's specification: parse_text_part reads one more line.    *)
(***************************************************************************)
MaxLines == 4

ParseLine ==
    /\ Len(tp_input) < MaxLines
    /\ \E line \in Lines :
        LET st == ParseStep([block |-> tp_block, parse |-> tp_parse,
                             clines |-> tp_clines], line)
        IN  /\ tp_input' = Append(tp_input, line)
            /\ tp_block' = st.block
            /\ tp_parse' = st.parse
            /\ tp_clines' = st.clines
    /\ UNCHANGED <<treeVars, cacheVars, addrVars, lockVars>>

InitText == TextIdle /\ TreeIdle /\ CacheIdle /\ AddrIdle /\ LockIdle
NextText == ParseLine
SpecText == InitText /\ [][NextText]_vars

(***************************************************************************)
(* The specification of the tree builder and the overlay: a message is     *)
(* given, get_message_tree builds its tree, evaluate_pgp runs over it.     *)
(***************************************************************************)
MaxParts == 2

Messages == UNION { [1..n -> Parts] : n \in 1..MaxParts }

Wants == { WantAll, WANT_MSG_TREE_PGP, Want({"text_parts"}),
           Want({"attachments", "html_parts"}) }

TreeInit ==
    /\ ev_msg \in Messages
    /\ ev_tree = EmptyTree
    /\ ev_orig = <<>>
    /\ ev_opts = [check_sigs |-> FALSE, decrypt |-> FALSE]
    /\ ev_pgpdata = <<>>
    /\ ev_i = 0
    /\ ev_pc = "msg"
    /\ ev_exc = "none"
    /\ ev_calls = <<>>

\* tree = email.get_message_tree(want)
GetMessageTree ==
    /\ ev_pc = "msg"
    /\ \E want \in Wants, mime \in MimeOutcomes :
        LET tree == get_message_tree(ev_msg, want, mime)
        IN  /\ ev_tree' = tree
            /\ ev_orig' = tree.text_parts
    /\ ev_pc' = "tree"
    /\ UNCHANGED <<ev_msg, ev_opts, ev_pgpdata, ev_i, ev_exc, ev_calls>>
    /\ UNCHANGED <<textVars, cacheVars, addrVars, lockVars>>

\* email.evaluate_pgp(tree, check_sigs, decrypt) is called: up to the loop
EvaluatePgpEnter ==
    /\ ev_pc = "tree"
    /\ \E check_sigs \in BOOLEAN, decrypt \in BOOLEAN :
        ev_opts' = [check_sigs |-> check_sigs, decrypt |-> decrypt]
    /\ ev_pc' = IF ev_tree.has_text THEN "loop" ELSE "returned"
    /\ ev_pgpdata' = <<>>
    /\ ev_i' = 1
    /\ UNCHANGED <<ev_msg, ev_tree, ev_orig, ev_exc, ev_calls>>
    /\ UNCHANGED <<textVars, cacheVars, addrVars, lockVars>>

\* one iteration of the loop over tree['text_parts']
EvaluatePgpPart ==
    /\ ev_pc = "loop"
    /\ ev_i <= Len(ev_tree.text_parts)
    /\ \E v \in VerifyOutcomes, d \in DecryptOutcomes :
        LET st == EvaluatePart(ev_tree, ev_pgpdata, ev_calls, ev_opts, ev_i, v, d)
        IN  /\ ev_tree' = st.tree
            /\ ev_pgpdata' = st.pgpdata
            /\ ev_calls' = st.calls
            /\ ev_exc' = st.exc
            /\ ev_pc' = IF st.exc # "none" THEN "raised" ELSE "loop"
            /\ ev_i' = IF st.exc # "none" THEN ev_i ELSE ev_i + 1
    /\ UNCHANGED <<ev_msg, ev_orig, ev_opts>>
    /\ UNCHANGED <<textVars, cacheVars, addrVars, lockVars>>

\* after the loop: the cleanup, mix_bubbles on tree['crypto'], return tree
EvaluatePgpFinish ==
    /\ ev_pc = "loop"
    /\ ev_i > Len(ev_tree.text_parts)
    /\ ev_exc' = FinishException(ev_tree)
    /\ ev_pc' = IF FinishException(ev_tree) = "none" THEN "returned" ELSE "raised"
    /\ ev_tree' = FinishMix(ev_tree)
    /\ UNCHANGED <<ev_msg, ev_orig, ev_opts, ev_pgpdata, ev_i, ev_calls>>
    /\ UNCHANGED <<textVars, cacheVars, addrVars, lockVars>>

InitTree == TreeInit /\ TextIdle /\ CacheIdle /\ AddrIdle /\ LockIdle
NextTree == GetMessageTree \/ EvaluatePgpEnter \/ EvaluatePgpPart \/ EvaluatePgpFinish
SpecTree == InitTree /\ [][NextTree]_vars

(***************************************************************************)
(* The specification of the parse cache: calls of ParseMessage,            *)
(* ClearParseCache and update_parse_cache, one at a time.                  *)
(***************************************************************************)
MaxOps == 4

\* the message index positions used as cache ids
CacheIds == {0, 1}

\* the cache after n calls ParseMessage(fd, cache_id=1, update_cache=True,
\* pgpmime=False): n entries, the newest first
Filled(n) == [i \in 1..n |-> Entry(1, FALSE, n - i + 1, 1 - i)]

CacheInit ==
    /\ \E n \in {0, CACHE_KEEP} :
        /\ gpc = Filled(n)
        /\ pc_next = n + 1
        /\ pc_stored = Tuples(Filled(n))
    /\ pc_clock = 0
    /\ pc_cleared = {}
    /\ pc_last = NoOp

\* ParseMessage(fd, cache_id, update_cache, pgpmime)
ParseMessageCall ==
    /\ pc_clock < MaxOps
    /\ \E cache_id \in CacheIds, update_cache \in BOOLEAN, pgpmime \in BOOLEAN,
          readable \in BOOLEAN :
        LET r == parse_message(gpc, cache_id, update_cache, pgpmime, readable,
                               pc_next, pc_clock + 1)
        IN  /\ gpc' = r.cache
            /\ pc_next' = pc_next + r.made
            /\ pc_stored' = pc_stored \cup Tuples(r.cache)
            /\ pc_last' = Op("parse", cache_id, pgpmime /\ HaveGnuPG, update_cache,
                             r.ret, r.hit, r.inserted)
    /\ pc_clock' = pc_clock + 1
    /\ UNCHANGED pc_cleared
    /\ UNCHANGED <<textVars, treeVars, addrVars, lockVars>>

\* ClearParseCache(cache_id, pgpmime, full)
ClearParseCacheCall ==
    /\ pc_clock < MaxOps
    /\ \E args \in ({NONE} \cup CacheIds) \X {FALSE} \X {FALSE}
                      \cup {<<NONE, TRUE, FALSE>>, <<NONE, FALSE, TRUE>>} :
        /\ gpc' = clear_parse_cache(gpc, args[1], args[2], args[3])
        /\ pc_last' = Op("clear", args[1], args[2], args[3], NONE, FALSE, 0)
        /\ pc_cleared' = IF args[1] # NONE
                             THEN {c \in pc_cleared : c[1] # args[1]}
                                      \cup {<<args[1], pc_clock + 1>>}
                             ELSE pc_cleared
    /\ pc_clock' = pc_clock + 1
    /\ UNCHANGED <<pc_next, pc_stored>>
    /\ UNCHANGED <<textVars, treeVars, addrVars, lockVars>>

\* Email.update_parse_cache(newmsg): newmsg is a message object the caller
\* has made, or the one the preceding ParseMessage call gave it
UpdateParseCacheCall ==
    /\ pc_clock < MaxOps
    /\ \E msg_idx_pos \in CacheIds,
          newmsg \in {pc_next} \cup (IF pc_last.op = "parse" /\ pc_last.ret # NONE
                                         THEN {pc_last.ret} ELSE {}) :
        /\ gpc' = update_parse_cache(gpc, msg_idx_pos, newmsg, pc_clock + 1)
        /\ pc_stored' = pc_stored \cup Tuples(gpc')
        /\ pc_last' = Op("update", msg_idx_pos, FALSE, FALSE, NONE, FALSE, 0)
        /\ pc_next' = IF newmsg = pc_next THEN pc_next + 1 ELSE pc_next
    /\ pc_clock' = pc_clock + 1
    /\ UNCHANGED pc_cleared
    /\ UNCHANGED <<textVars, treeVars, addrVars, lockVars>>

InitCache == CacheInit /\ TextIdle /\ TreeIdle /\ AddrIdle /\ LockIdle
NextCache == ParseMessageCall \/ ClearParseCacheCall \/ UpdateParseCacheCall
SpecCache == InitCache /\ [][NextCache]_vars

(***************************************************************************)
(* The parse cache's specification under concurrent callers.               *)
(***************************************************************************)
MaxCalls == 1

\* the thread's locals become l, the other threads keep theirs
Moves(t, l) == lk_thr' = [lk_thr EXCEPT ![t] = l]

\* the rest of the state of the lock specification
LockFrame ==
    UNCHANGED <<pc_next, pc_clock, pc_stored, pc_cleared, pc_last, textVars, treeVars,
                addrVars>>

LockInit ==
    /\ gpc = Filled(CACHE_KEEP)
    /\ pc_next = 1
    /\ pc_clock = 0
    /\ pc_stored = {}
    /\ pc_cleared = {}
    /\ pc_last = NoOp
    /\ lk_holder = 0
    /\ lk_thr = [t \in Threads |-> Resting(0)]
    /\ lk_hist = NoUpdate

\* ParseMessage(fd, cache_id, update_cache, pgpmime) is called
CallParseMessage(t) ==
    /\ lk_thr[t].pc = "idle"
    /\ lk_thr[t].calls < MaxCalls
    /\ \E cache_id \in {NONE, 1}, update_cache \in BOOLEAN, pgpmime \in BOOLEAN :
           Moves(t, Local(IF cache_id # NONE /\ ~update_cache THEN LookupStart ELSE "build",
                          cache_id, update_cache, pgpmime /\ HaveGnuPG, FALSE, FALSE,
                          1, 0, NONE, lk_thr[t].calls + 1))
    /\ UNCHANGED <<gpc, lk_holder>>
    /\ UNCHANGED lk_hist
    /\ LockFrame

\* ClearParseCache(cache_id, pgpmime, full) is called
CallClearParseCache(t) ==
    /\ lk_thr[t].pc = "idle"
    /\ lk_thr[t].calls < MaxCalls
    /\ \E cache_id \in {NONE, 1}, pgpmime \in BOOLEAN, full \in BOOLEAN :
           Moves(t, Local("clear_lock", cache_id, FALSE, pgpmime, full, FALSE,
                          0, 0, NONE, lk_thr[t].calls + 1))
    /\ UNCHANGED <<gpc, lk_holder>>
    /\ UNCHANGED lk_hist
    /\ LockFrame

\* Email.update_parse_cache(newmsg) is called, msg_idx_pos 1 and not ephemeral
CallUpdateParseCache(t) ==
    /\ lk_thr[t].pc = "idle"
    /\ lk_thr[t].calls < MaxCalls
    /\ Moves(t, Local("update_lock", 1, FALSE, FALSE, FALSE, FALSE, 0, 0,
                      FreshMsg(t, lk_thr[t]), lk_thr[t].calls + 1))
    /\ UNCHANGED <<gpc, lk_holder>>
    /\ UNCHANGED lk_hist
    /\ LockFrame


\* with GLOBAL_PARSE_CACHE_LOCK: the block is entered
Acquire(t) ==
    /\ lk_thr[t].pc \in WaitingPcs
    /\ CanAcquire(lk_holder)
    /\ lk_holder' = t
    /\ Moves(t, [lk_thr[t] EXCEPT !.pc = Entered(@), !.i = 1, !.n = Len(gpc)])
    /\ lk_hist' = IF lk_thr[t].pc = "update_lock"
                       THEN UpdateBegins(lk_hist, gpc, lk_thr, t)
                       ELSE lk_hist
    /\ UNCHANGED gpc
    /\ LockFrame

\* for cid, pm, message in GLOBAL_PARSE_CACHE: one iteration, or the end
LookupScan(t) ==
    /\ lk_thr[t].pc = "lookup_scan"
    /\ IF lk_thr[t].i > Len(gpc)
           THEN /\ Moves(t, [lk_thr[t] EXCEPT !.pc = "build"])
                /\ lk_holder' = 0
       ELSE IF Matches(gpc[lk_thr[t].i], lk_thr[t].cid, lk_thr[t].pm)
           THEN /\ Moves(t, Returning(t, lk_thr[t], gpc[lk_thr[t].i].msg))
                /\ lk_holder' = 0
       ELSE /\ Moves(t, [lk_thr[t] EXCEPT !.i = @ + 1])
            /\ UNCHANGED lk_holder
    /\ UNCHANGED gpc
    /\ UNCHANGED lk_hist
    /\ LockFrame

\* the message is made: by the call ParseMessage makes of itself when
\* pgpmime, by the parser otherwise (None when fd gives no file)
Build(t) ==
    /\ lk_thr[t].pc = "build"
    /\ IF lk_thr[t].pm
           THEN Moves(t, [lk_thr[t] EXCEPT
                    !.pc = IF lk_thr[t].cid # NONE THEN LookupStart ELSE "build",
                    !.pm = FALSE, !.update = FALSE, !.inner = TRUE])
           ELSE \E readable \in BOOLEAN :
                    IF ~readable THEN Moves(t, Returning(t, lk_thr[t], NONE))
                    ELSE IF lk_thr[t].cid # NONE
                        THEN Moves(t, [lk_thr[t] EXCEPT !.pc = "insert_lock",
                                           !.msg = FreshMsg(t, lk_thr[t])])
                    ELSE Moves(t, Returning(t, lk_thr[t], FreshMsg(t, lk_thr[t])))
    /\ UNCHANGED <<gpc, lk_holder>>
    /\ UNCHANGED lk_hist
    /\ LockFrame

\* GLOBAL_PARSE_CACHE[24:] = []
Truncate(t) ==
    /\ lk_thr[t].pc = "truncate"
    /\ gpc' = SubSeq(gpc, 1, IF Len(gpc) < CACHE_KEEP THEN Len(gpc) ELSE CACHE_KEEP)
    /\ Moves(t, [lk_thr[t] EXCEPT !.pc = "prepend"])
    /\ UNCHANGED lk_holder
    /\ UNCHANGED lk_hist
    /\ LockFrame

\* GLOBAL_PARSE_CACHE[:0] = [(cache_id, pgpmime, message)]; return message
Prepend(t) ==
    /\ lk_thr[t].pc = "prepend"
    /\ gpc' = <<Entry(lk_thr[t].cid, lk_thr[t].pm, lk_thr[t].msg, 0)>> \o gpc
    /\ lk_holder' = 0
    /\ Moves(t, Returning(t, lk_thr[t], lk_thr[t].msg))
    /\ UNCHANGED lk_hist
    /\ LockFrame

\* ClearParseCache: one iteration of for i in range(0, len(GPC)), or the
\* end; an index past the end of the list ends the call with IndexError
ClearScan(t) ==
    /\ lk_thr[t].pc = "clear_scan"
    /\ IF lk_thr[t].i > lk_thr[t].n \/ lk_thr[t].i > Len(gpc)
           THEN /\ Moves(t, Resting(lk_thr[t].calls))
                /\ lk_holder' = 0
                /\ UNCHANGED gpc
           ELSE /\ Moves(t, [lk_thr[t] EXCEPT !.i = @ + 1])
                /\ gpc' = IF ClearTest(gpc[lk_thr[t].i], lk_thr[t].cid,
                                       lk_thr[t].pm, lk_thr[t].full)
                              THEN [gpc EXCEPT ![lk_thr[t].i] = Tombstone]
                              ELSE gpc
                /\ UNCHANGED lk_holder
    /\ UNCHANGED lk_hist
    /\ LockFrame

\* update_parse_cache: one iteration of for i in range(0, len(GPC)), or the end
UpdateScan(t) ==
    /\ lk_thr[t].pc = "update_scan"
    /\ IF lk_thr[t].i > lk_thr[t].n \/ lk_thr[t].i > Len(gpc)
           THEN /\ Moves(t, Resting(lk_thr[t].calls))
                /\ lk_holder' = 0
                /\ lk_hist' = [lk_hist EXCEPT !.updated = TRUE]
                /\ UNCHANGED gpc
           ELSE /\ Moves(t, [lk_thr[t] EXCEPT !.i = @ + 1])
                /\ gpc' = IF gpc[lk_thr[t].i].cid = lk_thr[t].cid
                              THEN [gpc EXCEPT ![lk_thr[t].i] =
                                        Entry(lk_thr[t].cid, FALSE, lk_thr[t].msg, 0)]
                              ELSE gpc
                /\ UNCHANGED <<lk_holder, lk_hist>>
    /\ LockFrame

InitLock == LockInit /\ TextIdle /\ TreeIdle /\ AddrIdle
NextLock ==
    \E t \in Threads :
        \/ CallParseMessage(t)
        \/ CallClearParseCache(t)
        \/ CallUpdateParseCache(t)
        \/ Acquire(t)
        \/ LookupScan(t)
        \/ Build(t)
        \/ Truncate(t)
        \/ Prepend(t)
        \/ ClearScan(t)
        \/ UpdateScan(t)
SpecLock == InitLock /\ [][NextLock]_vars

(***************************************************************************)
(* The address parser's specification: AddressHeaderParser(data, strict,   *)
(* _raise) parses a header.  A header is a concatenation of a few chunks.  *)
(***************************************************************************)
MaxChunks == 3

Chunks ==
    { <<"a", "@", "b">>, <<"<", "a", "@", "b", ">">>, <<"c", "@", "d", "#", "k">>,
      <<"x">>, <<" ">>, <<",">>, <<"<">>, <<"\"">>, <<"@">>, <<"(", "y", ")">>,
      <<">">>, UNDISCLOSED, <<"'">>, <<"a", "@", "b", "\n">> }

RECURSIVE Concat(_)
Concat(chunks) == IF chunks = <<>> THEN <<>> ELSE Head(chunks) \o Concat(Tail(chunks))

Headers == {Concat(cs) : cs \in UNION {[1..n -> Chunks] : n \in 0..MaxChunks}}

\* the arguments of the constructor
ParseArgs == [strict : BOOLEAN, raise : BOOLEAN]

\* before AddressHeaderParser(data, strict=..., _raise=...): the call's arguments
AddrInit ==
    /\ ah_raw_data \in Headers
    /\ ah_args \in ParseArgs
    /\ ah_pc = "new"
    /\ ah_list = <<>>
    /\ ah_tokens = <<>>
    /\ ah_groups = <<>>
    /\ ah_passes = <<>>

\* what _parse leaves in the parser
AddrAfter(r) ==
    /\ ah_pc' = r.outcome
    /\ ah_list' = r.list
    /\ ah_tokens' = r.tokens
    /\ ah_groups' = r.groups
    /\ ah_passes' = r.passes

\* AddressHeaderParser(data, strict=..., _raise=...): __init__ calls
\* parse(data), which calls _parse(data, **self._parse_args)
ParseCall ==
    /\ ah_pc = "new"
    /\ AddrAfter(parse(ah_raw_data, ah_args.strict, ah_args.raise))
    /\ UNCHANGED <<ah_raw_data, ah_args>>
    /\ UNCHANGED <<textVars, treeVars, cacheVars, lockVars>>

InitAddr == AddrInit /\ TextIdle /\ TreeIdle /\ CacheIdle /\ LockIdle
NextAddr == ParseCall
SpecAddr == InitAddr /\ [][NextAddr]_vars

(***************************************************************************)
(* Properties of the classifier.                                           *)
(***************************************************************************)

\* C1: concatenating, in order, the data of the blocks parse_text_part has
\* built reproduces the lines it has read, also after the quote lookback
\* moved one or two lines of the previous block into a new quote block.
C1_ConcatReproducesInput == JoinData(tp_parse) = tp_input

\* C1 witness: the two-line lookback has happened: a quote block starts with
\* the attribution line and the blank line taken from the block before it.
C1_Witness ==
    \E i \in 2..Len(tp_parse) :
        /\ tp_parse[i].type = "quote"
        /\ Len(tp_parse[i].data) = 3
        /\ HasAt(tp_parse[i].data[1]) /\ ~StartsWithGT(tp_parse[i].data[1])
        /\ IsBlank(tp_parse[i].data[2])
        /\ tp_parse[i-1].type = "text"
        /\ tp_parse[i-1].data # <<>>

EightStates == {"body", "quote", "signature", "pgpbeginsigned", "pgpsignedtext",
                "pgpsignature", "pgpbegin", "pgptext"}

NineStates == EightStates \cup {"pgpend"}

LineTypes == {"text", "quote", "signature", "pgpbeginsigned", "pgpsignedtext",
              "pgpsignature", "pgpbegin", "pgptext", "pgpend"}

\* C5 as stated: the block state returned by parse_line_type is always one
\* of the eight states body, quote, signature, pgpbeginsigned, pgpsignedtext,
\* pgpsignature, pgpbegin, pgptext.
C5_BlockInEightStates == tp_block \in EightStates

\* C5 amended: the block state returned by parse_line_type is always one of
\* nine states: the eight above and pgpend, the state after the END line of
\* a PGP signature or of a PGP message.
C5_BlockInNineStates == tp_block \in NineStates

\* C5 witness: the classifier has returned the ninth state.
C5_Witness == tp_block = "pgpend" /\ tp_input # <<>>

\* no row of the transition table other than the default one applies
NoSpecificRule(line, block) ==
    /\ ~(block \in {"body", "quote"} /\ IsSignatureSeparator(line))
    /\ block \notin {"signature", "pgpbeginsigned", "pgpsignedtext",
                      "pgpsignature", "pgpbegin", "pgptext"}
    /\ Rstrip(line) \notin {ARMOR_BEGIN_SIGNED, ARMOR_BEGIN_ENCRYPTED}
    /\ ~(block = "quote" /\ IsBlank(line))
    /\ ~StartsWithGT(line)

\* C6: in every block state the classifier reaches, parse_line_type gives
\* every line one (next block, line type) pair, and a line that matches no
\* specific rule is classified (body, text).
C6_Total ==
    \A line \in Lines :
        LET r == parse_line_type(line, tp_block)
        IN  /\ r \in NineStates \X LineTypes
            /\ NoSpecificRule(line, tp_block) => r = <<"body", "text">>

\* C6 witness: after a completed PGP message (state pgpend) a line that
\* matches no specific rule has been classified as text.
C6_Witness ==
    /\ Len(tp_parse) >= 2
    /\ tp_parse[Len(tp_parse)].type = "text"
    /\ tp_parse[Len(tp_parse) - 1].type = "pgpend"
    /\ tp_block = "body"

\* the block state after the first k lines of the text
RECURSIVE BlockAfter(_, _)
BlockAfter(input, k) ==
    IF k = 0 THEN "body"
    ELSE parse_line_type(input[k], BlockAfter(input, k - 1))[1]

\* line k is a signature separator seen in body or quote state
SeparatorSeenAt(input, k) ==
    /\ IsSignatureSeparator(input[k])
    /\ BlockAfter(input, k - 1) \in {"body", "quote"}

\* C18: in block state signature every line is classified (signature,
\* signature), whatever its content; hence the lines from a separator seen in
\* body or quote state up to the last line read form one signature block,
\* the last block and the only signature block of the text.
C18_SignatureIsSticky ==
    /\ tp_block = "signature" =>
           \A line \in Lines :
               parse_line_type(line, tp_block) = <<"signature", "signature">>
    /\ \A k \in 1..Len(tp_input) :
           SeparatorSeenAt(tp_input, k) =>
               /\ tp_block = "signature"
               /\ Last(tp_parse).type = "signature"
               /\ Last(tp_parse).data = SubSeq(tp_input, k, Len(tp_input))
               /\ \A b \in 1..(Len(tp_parse) - 1) : tp_parse[b].type # "signature"

\* C18 witness: a PGP armor header line and a '>' line have followed the
\* separator and are in the signature block
C18_Witness ==
    /\ Len(tp_input) = 4
    /\ tp_input[1] = L_TEXT
    /\ SeparatorSeenAt(tp_input, 2)
    /\ tp_input[3] = L_BSIGNED
    /\ tp_input[4] = L_QUOTE
    /\ Len(tp_parse) = 2
    /\ Len(Last(tp_parse).data) = 3

\* the number of lines that are to move from the previous block, of lines
\* prev, into a block of the type that starts
MovedLines(prev, type) ==
    IF type # "quote" THEN 0
    ELSE IF prev # <<>> /\ HasAt(prev[Len(prev)]) THEN 1
    ELSE IF Len(prev) > 2 /\ HasAt(prev[Len(prev) - 1]) /\ IsBlank(prev[Len(prev)]) THEN 2
    ELSE 0

\* the step has started a block: it holds the last n lines of the previous
\* block, of lines prev, and the line read; the previous block has lost them
BlockStarted(prev, n) ==
    /\ Last(tp_parse').data =
           SubSeq(prev, Len(prev) - n + 1, Len(prev)) \o <<Last(tp_input')>>
    /\ \A b \in 1..Len(tp_parse) :
           tp_parse'[b].data =
               IF b = Len(tp_parse) THEN SubSeq(prev, 1, Len(prev) - n)
               ELSE tp_parse[b].data

\* C23: when a quote block starts, one line moves into it from the end of
\* the previous block if that block's last line has an '@'; else two lines
\* move if the block has more than two lines, its last but one has an '@'
\* and its last is blank; else none.  No other type of block takes lines.
C23_QuoteLookback ==
    [][ Len(tp_parse') = Len(tp_parse) + 1 =>
            BlockStarted(IF tp_parse = <<>> THEN <<>> ELSE Last(tp_parse).data,
                         MovedLines(IF tp_parse = <<>> THEN <<>> ELSE Last(tp_parse).data,
                                    Last(tp_parse').type))
      ]_vars

\* C23 witness: one line, the attribution, has moved into the quote block
\* that follows a text block
C23_Witness ==
    \E i \in 2..Len(tp_parse) :
        /\ tp_parse[i].type = "quote"
        /\ Len(tp_parse[i].data) = 2
        /\ HasAt(tp_parse[i].data[1]) /\ ~StartsWithGT(tp_parse[i].data[1])
        /\ tp_parse[i - 1].type = "text"
        /\ Len(tp_parse[i - 1].data) = 1

(***************************************************************************)
(* Properties of the tree builder and of the overlay.                      *)
(***************************************************************************)

\* C2: every call of gpg.decrypt, made on reaching the pgpend block of a
\* pgpbegin -> pgptext -> pgpend run, is passed exactly the concatenated
\* data of the three blocks of that run, and its results are recorded on
\* the pgptext block of that run, whatever PGP runs precede it in the tree.
C2_DecryptGetsOwnRun ==
    \A k \in 1..Len(ev_calls) :
        LET c == ev_calls[k]
        IN  c.op = "decrypt" =>
                /\ c.at >= 3
                /\ c.arg = ev_orig[c.at - 2].data \o ev_orig[c.at - 1].data
                               \o ev_orig[c.at].data
                /\ c.target = c.at - 1

\* C3: an exception raised by gpg.decrypt never leaves evaluate_pgp: it is
\* caught at the run, and the loop goes on to the later runs.
C3_DecryptFailureCaught ==
    ~(ev_pc = "raised" /\ ev_exc = "GnuPGError")

\* C4: the count get_message_tree gives an attachment is the count
\* _find_attachments gives the same part, so 'part:N' selects that part.
C4_OrdinalsAgree ==
    \A k \in 1..Len(ev_tree.attachments) :
        LET att == ev_tree.attachments[k]
        IN  /\ att.count = FindCount(ev_msg, att.part)
            /\ find_attachments(ev_msg, att.count) = {att.part}

\* C8: evaluate_pgp returns normally for every tree get_message_tree builds
\* with text_parts wanted: no error of its own ends it (an exception of the
\* external decrypt call is the subject of C3).
C8_EvaluateReturnsNormally ==
    ~(ev_pc = "raised" /\ ev_exc \in {"KeyError", "IndexError"})

\* the blocks i - 2, i - 1 and i are a pgpbeginsigned -> pgpsignedtext ->
\* pgpsignature run
SignedRunAt(text_parts, i) ==
    /\ i >= 3
    /\ text_parts[i - 2].type = "pgpbeginsigned"
    /\ text_parts[i - 1].type = "pgpsignedtext"
    /\ text_parts[i].type = "pgpsignature"

\* the blocks i - 2, i - 1 and i are a pgpbegin -> pgptext -> pgpend run
EncryptedRunAt(text_parts, i) ==
    /\ i >= 3
    /\ text_parts[i - 2].type = "pgpbegin"
    /\ text_parts[i - 1].type = "pgptext"
    /\ text_parts[i].type = "pgpend"

\* the three blocks of the run that ends at i are as get_message_tree
\* returned them: data and crypto annotations
RunUntouched(i) ==
    \A j \in {i - 2, i - 1, i} : ev_tree.text_parts[j] = ev_orig[j]

\* C12: if gpg.verify raises for a pgpbeginsigned -> pgpsignedtext ->
\* pgpsignature run, evaluate_pgp catches the exception and the data and
\* crypto annotations of the three blocks of that run stay as they were
\* while the loop goes on over the following blocks and runs.
C12_VerifyFailureLeavesRun ==
    \A k \in 1..Len(ev_calls) :
        LET c == ev_calls[k]
        IN  (c.op = "verify" /\ c.raised /\ SignedRunAt(ev_orig, c.at))
                => RunUntouched(c.at)

\* the types of the blocks of inline PGP content
PgpTypes == {"pgpbeginsigned", "pgpsignedtext", "pgpsignature",
             "pgpbegin", "pgptext", "pgpend"}

\* the run that ends at i is the only PGP content of the tree: no other
\* block has a PGP type and no part has bubbled a status up
OnlyPgpContent(i) ==
    /\ \A j \in 1..Len(ev_orig) : j \notin {i - 2, i - 1, i} => ev_orig[j].type \notin PgpTypes
    /\ ev_tree.crypto.sbub = {}
    /\ ev_tree.crypto.ebub = {}

\* a decrypt call raised for a pgpbegin -> pgptext -> pgpend run, the only
\* PGP content of the tree
DecryptRaisedAlone(c) ==
    /\ c.op = "decrypt"
    /\ c.raised
    /\ EncryptedRunAt(ev_orig, c.at)
    /\ OnlyPgpContent(c.at)

\* C13: a decrypt call that raises leaves the text of the three blocks of
\* its run unchanged and leaves the aggregate of the message at none, in a
\* tree whose only PGP content is that run.
C13_DecryptFailureLeavesTree ==
    \A k \in 1..Len(ev_calls) :
        DecryptRaisedAlone(ev_calls[k]) =>
            /\ \A j \in {ev_calls[k].at - 2, ev_calls[k].at - 1, ev_calls[k].at} :
                   ev_tree.text_parts[j].data = ev_orig[j].data
            /\ ev_tree.crypto.sig = "none"
            /\ ev_tree.crypto.enc = "none"

\* decrypt has raised for the only run of a tree that holds other text too
C13_Witness ==
    /\ ev_pc = "raised"
    /\ Len(ev_orig) > 3
    /\ \E k \in 1..Len(ev_calls) : DecryptRaisedAlone(ev_calls[k])

\* the aggregate does not report verified or decrypted when a status that
\* bubbled into it, or a text block, reports invalid or a failure
Monotonic(tree) ==
    /\ "invalid" \in tree.crypto.sbub => tree.crypto.sig # "verified"
    /\ "missingkey" \in tree.crypto.ebub => tree.crypto.enc # "decrypted"
    /\ \A b \in 1..Len(tree.text_parts) :
           /\ tree.text_parts[b].sig = "invalid" => tree.crypto.sig # "verified"
           /\ tree.text_parts[b].enc = "missingkey" => tree.crypto.enc # "decrypted"

\* the number of times mix_bubbles must have been applied to the aggregate
\* the tree holds once the overlay pass is over: the one of the message was
\* mixed by the build, the one evaluate_pgp creates was not
MixesAfterOverlay(tree) == IF tree.crypto.bubbly THEN 2 ELSE 1

\* what holds of the aggregate whenever evaluate_pgp returns
MonotonicOnReturn ==
    /\ ev_pc = "tree" => Monotonic(ev_tree) /\ ev_tree.crypto.mixes = 1
    /\ (ev_pc = "returned" /\ ev_tree.has_text) =>
           Monotonic(ev_tree) /\ ev_tree.crypto.mixes = MixesAfterOverlay(ev_tree)

\* C14: after get_message_tree, and again once evaluate_pgp has ended its
\* pass over the text blocks, the aggregate reports neither verified nor
\* decrypted when a part or a text block that bubbles into it reports an
\* invalid or failed status, and mix_bubbles has been applied to it once by
\* the build and once more by the overlay pass.
C14_BubblingMonotonic ==
    /\ ev_pc = "tree" => Monotonic(ev_tree) /\ ev_tree.crypto.mixes = 1
    /\ (ev_pc \in {"returned", "raised"} /\ ev_tree.has_text) =>
           Monotonic(ev_tree) /\ ev_tree.crypto.mixes = MixesAfterOverlay(ev_tree)

\* the step makes a call of gpg.verify or gpg.decrypt
CallMade == Len(ev_calls') = Len(ev_calls) + 1

\* the call the step has made
NewCall == ev_calls'[Len(ev_calls')]

\* the step is the iteration of the loop for a pgpsignature block, with
\* check_sigs enabled
ReachesSignature ==
    /\ ev_pc = "loop"
    /\ ev_i <= Len(ev_tree.text_parts)
    /\ ev_opts.check_sigs
    /\ ev_tree.text_parts[ev_i].type = "pgpsignature"
    /\ ev_calls' # ev_calls \/ ev_i' # ev_i

\* the tree after a verify call that returned: the status is on the
\* pgpsignedtext block, the data of the two blocks around it is empty
VerifiedRun(text_parts, call) ==
    /\ text_parts[call.at - 1].sig = call.si
    /\ text_parts[call.at - 2].data = <<>>
    /\ text_parts[call.at].data = <<>>

\* C19: with check_sigs enabled, gpg.verify is called on reaching a
\* pgpsignature block, on the concatenated data of the pgpbeginsigned,
\* pgpsignedtext and pgpsignature blocks of the run that ends there,
\* whatever runs precede it; when it returns, its status is attached to the
\* pgpsignedtext block and the data of the other two blocks is empty.
C19_VerifyGetsOwnRun ==
    [][ /\ ReachesSignature =>
               CallMade /\ NewCall.op = "verify" /\ NewCall.at = ev_i
        /\ (CallMade /\ NewCall.op = "verify") =>
               /\ SignedRunAt(ev_orig, NewCall.at)
               /\ NewCall.arg = JoinParts(ev_orig, <<NewCall.at - 2, NewCall.at - 1,
                                                    NewCall.at>>)
               /\ ~NewCall.raised => VerifiedRun(ev_tree'.text_parts, NewCall)
      ]_vars

\* C19 witness: verify has returned for a signed run that follows a run
\* gpg.decrypt was called for
C19_Witness ==
    \E k \in 2..Len(ev_calls) :
        /\ ev_calls[k].op = "verify"
        /\ ~ev_calls[k].raised
        /\ ev_calls[k - 1].op = "decrypt"
        /\ ev_i = ev_calls[k].at + 1
        /\ VerifiedRun(ev_tree.text_parts, ev_calls[k])

\* the text blocks of the tree come from an HTML part, by the fallback
FromHtml(tree) ==
    \E b \in 1..Len(tree.text_parts) :
        ev_msg[tree.text_parts[b].origin].mimetype = "text/html"

\* C20: in the tree get_message_tree returns, the parent of the crypto info
\* of every text block is the crypto info of the part the block's text came
\* from, also for the blocks the fallback derives from an HTML part that
\* other parts follow in the walk.
C20_ParentIsOwnPart ==
    ev_pc = "tree" =>
        \A b \in 1..Len(ev_tree.text_parts) :
            ev_tree.text_parts[b].parent = ev_tree.text_parts[b].origin

\* what holds: the parent is the part of the text but for the blocks of the
\* fallback, whose parent is the last part of the walk
ParentIsOwnPartInWalk ==
    ev_pc = "tree" =>
        \A b \in 1..Len(ev_tree.text_parts) :
            ev_tree.text_parts[b].parent =
                IF FromHtml(ev_tree) THEN Len(ev_msg) ELSE ev_tree.text_parts[b].origin

\* the message has an inline part of the mimetype
HasInline(msg, mimetype) ==
    \E i \in 1..Len(msg) : msg[i].inline /\ msg[i].mimetype = mimetype

\* the message has an inline text/plain part whose payload is not blank
HasPlainText(msg) ==
    \E i \in 1..Len(msg) :
        msg[i].inline /\ msg[i].mimetype = "text/plain" /\ HasText(msg[i].text)

\* C21: get_message_tree derives text blocks from an HTML part if and only
\* if text_parts is wanted, the message has an inline text/html part and it
\* has no inline text/plain part, whatever the rest of want, also when want
\* has text_parts and not html_parts.
C21_HtmlFallbackIff ==
    ev_pc = "tree" =>
        (FromHtml(ev_tree) <=>
            /\ ev_tree.has_text
            /\ HasInline(ev_msg, "text/html")
            /\ ~HasInline(ev_msg, "text/plain"))

\* what holds: the fallback needs html_parts wanted too, and a text/plain
\* part of white space only does not prevent it
HtmlFallbackWhen ==
    ev_pc = "tree" =>
        (FromHtml(ev_tree) <=>
            /\ ev_tree.has_text
            /\ ev_tree.has_html
            /\ HasInline(ev_msg, "text/html")
            /\ ~HasPlainText(ev_msg))

(***************************************************************************)
(* Properties of the parse cache.                                          *)
(***************************************************************************)

\* the step has put pc_last'.inserted new entries at the front of the cache
\* and kept, in order, the entries that were there, dropping entries only
\* from the old end and only when the cache is full
InsertedAtFront ==
    LET n    == pc_last'.inserted
        rest == SubSeq(gpc', n + 1, Len(gpc'))
    IN  /\ Len(gpc') >= n
        /\ \A j \in 1..n : gpc'[j].cid = pc_last'.cid /\ gpc'[j].at = pc_clock'
        /\ Len(rest) <= Len(gpc)
        /\ rest = SubSeq(gpc, 1, Len(rest))
        /\ Len(rest) < Len(gpc) => Len(gpc') = CACHE_KEEP + 1

\* C9: after any sequence of ParseMessage, ClearParseCache and
\* update_parse_cache calls the cache holds at most 25 entries, and every
\* insertion puts the new entry at the front and drops entries only from
\* the oldest end, and only when the cache is full.
C9_CacheBounded ==
    /\ [](Len(gpc) <= CACHE_KEEP + 1)
    /\ [][pc_last'.inserted > 0 => InsertedAtFront]_vars

\* C9 witness: an insertion into a full cache has dropped the oldest entry
\* (message 1 of the initial fill).
C9_Witness ==
    /\ Len(gpc) = CACHE_KEEP + 1
    /\ pc_last.op = "parse" /\ pc_last.inserted > 0
    /\ gpc[Len(gpc)].cid = 1 /\ gpc[Len(gpc)].msg > 1

\* C10: a ParseMessage lookup (update_cache false) for cache_id k and mode m
\* that returns a message from the cache returns a message that was stored
\* under exactly (k, m), held by a live entry with that key, and the one
\* stored last among the entries with that key; never None, the content of
\* a cleared entry.
C10_LookupByExactKey ==
    (pc_last.op = "parse" /\ pc_last.hit) =>
        /\ ~pc_last.update
        /\ pc_last.ret # NONE
        /\ <<pc_last.cid, pc_last.pm, pc_last.ret>> \in pc_stored
        /\ \E i \in 1..Len(gpc) :
            /\ gpc[i].cid = pc_last.cid /\ gpc[i].pm = pc_last.pm
            /\ gpc[i].msg = pc_last.ret
            /\ \A j \in 1..Len(gpc) :
                (gpc[j].cid = pc_last.cid /\ gpc[j].pm = pc_last.pm)
                    => gpc[j].at <= gpc[i].at

\* C10 witness: a lookup was answered from a cache that holds an older entry
\* with the same key and another message, an entry with the same cache_id
\* and the other mode, and a cleared entry.
C10_Witness ==
    /\ pc_last.op = "parse" /\ pc_last.hit
    /\ \E j \in 1..Len(gpc) :
        /\ gpc[j].cid = pc_last.cid /\ gpc[j].pm = pc_last.pm
        /\ gpc[j].msg # pc_last.ret
    /\ \E j \in 1..Len(gpc) :
        gpc[j].cid = pc_last.cid /\ gpc[j].pm # pc_last.pm
    /\ \E j \in 1..Len(gpc) : gpc[j] = Tombstone

\* the entry a lookup for (cache_id, pgpmime) returns from
Returned(cache, cache_id, pgpmime) == cache[FirstMatch(cache, 1, cache_id, pgpmime)]

\* the lookup that has just returned a message from the cache returned one
\* stored after the last ClearParseCache(cache_id=k) of its k, if k is in ks
StoredAfterClear(ks) ==
    (pc_last.op = "parse" /\ pc_last.hit /\ pc_last.cid \in ks) =>
        \A c \in pc_cleared :
            c[1] = pc_last.cid =>
                Returned(gpc, pc_last.cid, pc_last.pm).at > c[2]

\* C26: after ClearParseCache(cache_id=k), for every index position k >= 0,
\* k = 0 too, no later ParseMessage lookup for k, whatever its decode mode,
\* returns a message that was in the cache before the clear.
C26_ClearedStaysCleared == StoredAfterClear({k \in CacheIds : k >= 0})

\* what holds: the same for k > 0
ClearedStaysClearedButZero == StoredAfterClear({k \in CacheIds : k > 0})

\* the step is a call ParseMessage(fd, cache_id, update_cache=True, pgpmime)
\* with a cache_id, which returns a message
UpdatingParse ==
    /\ pc_clock' = pc_clock + 1
    /\ pc_last'.op = "parse"
    /\ pc_last'.update
    /\ pc_last'.cid # NONE
    /\ pc_last'.ret # NONE

\* the step has parsed the message afresh: the parser has made a message
\* object and, with pgpmime, the result is a copy of that object
ParsedAfresh ==
    /\ ~pc_last'.hit
    /\ pc_last'.ret \notin CachedMsgs(gpc)
    /\ pc_next' - pc_next = IF pc_last'.pm THEN 2 ELSE 1

\* C28: ParseMessage called with a cache_id and update_cache=True neither
\* returns nor builds its result from a message taken from the cache: in
\* both decode modes the result is parsed afresh from fd.
C28_UpdateCacheParsesAfresh == [][UpdatingParse => ParsedAfresh]_vars

\* what holds: the same with pgpmime false
UpdateCacheParsesAfreshPlain ==
    [][(UpdatingParse /\ ~pc_last'.pm) => ParsedAfresh]_vars

\* the step is a call of ParseMessage with a cache_id and pgpmime that
\* hands a message to UnwrapMimeCrypto and returns it
UnwrappingParse ==
    /\ pc_clock' = pc_clock + 1
    /\ pc_last'.op = "parse"
    /\ pc_last'.pm
    /\ pc_last'.cid # NONE
    /\ ~pc_last'.hit
    /\ pc_last'.ret # NONE

\* C29: with a cache_id, the message handed to UnwrapMimeCrypto is a new
\* object, a copy: it is not an object the cache held, and after the call
\* the cache holds it under (k, pgpmime=True) only, never under a key with
\* pgpmime false.
C29_UnwrappedIsCopy ==
    [][UnwrappingParse =>
           /\ pc_last'.ret \notin CachedMsgs(gpc)
           /\ \A i \in 1..Len(gpc') :
                  gpc'[i].msg = pc_last'.ret =>
                      gpc'[i].pm /\ gpc'[i].cid = pc_last'.cid
      ]_vars

\* C29 witness: the cache holds the unwrapped copy just returned and,
\* under the same cache_id with pgpmime false, another message object
C29_Witness ==
    /\ pc_last.op = "parse" /\ pc_last.pm /\ ~pc_last.hit /\ pc_last.ret # NONE
    /\ pc_last.cid # NONE
    /\ pc_last.inserted = 2
    /\ gpc[1] = Entry(pc_last.cid, TRUE, pc_last.ret, pc_clock)
    /\ gpc[2].cid = pc_last.cid /\ ~gpc[2].pm /\ gpc[2].msg # pc_last.ret

(***************************************************************************)
(* Properties of the address parser.                                       *)
(***************************************************************************)
\* some group of the pass yields no address
PassMisses(data, munge) ==
    LET groups == group(tokenize(data, munge))
    IN  \E i \in 1..Len(groups) : find_address(groups[i], FALSE, munge).found = <<>>

\* every pass the mode runs has a group that yields no address: the first
\* pass in strict mode, the three passes otherwise
NoPassFindsAll(data, strict) ==
    /\ PassMisses(data, "")
    /\ strict \/ (PassMisses(data, "2") /\ PassMisses(data, "3"))

\* C7: when _raise is requested and some group yields no address in any
\* pass the mode runs, _parse raises ValueError to the caller.
C7_RaisesWhenNoAddress ==
    (/\ ah_pc # "new"
     /\ ah_args.raise
     /\ NoPassFindsAll(ah_raw_data, ah_args.strict))
        => ah_pc = "raised"

\* the number of times c occurs in str
RECURSIVE Count(_, _)
Count(str, c) ==
    IF str = <<>> THEN 0
    ELSE (IF Head(str) = c THEN 1 ELSE 0) + Count(Tail(str), c)

\* exactly one '@', no whitespace, no quote, no '#fingerprint' after the '@'
CleanAddress(address) ==
    /\ Count(address, "@") = 1
    /\ \A i \in 1..Len(address) : address[i] \notin Space \cup {"'", "\""}
    /\ LastIndexIn(address, Len(address), {"#"}) < IndexIn(address, 1, {"@"})

\* C15: every record the parser returns, whatever the pass that found it,
\* has an address with exactly one '@', no whitespace, no single or double
\* quote and no '#fingerprint' suffix.
C15_AddressIsClean ==
    ah_pc = "returned" =>
        \A i \in 1..Len(ah_list) : CleanAddress(ah_list[i].address)

\* what holds of every address: one '@' and no key suffix, no double quote
\* and no whitespace but a last newline
AddressShape ==
    ah_pc = "returned" =>
        \A i \in 1..Len(ah_list) :
            LET address == ah_list[i].address
            IN  /\ Count(address, "@") = 1
                /\ LastIndexIn(address, Len(address), {"#"}) < IndexIn(address, 1, {"@"})
                /\ \A j \in 1..Len(address) :
                       /\ address[j] # "\""
                       /\ address[j] \in Space => j = Len(address) /\ address[j] = "\n"

\* the munge argument of the last pass that ran
LastMunge == IF Len(ah_passes) < 2 THEN "" ELSE ah_passes[Len(ah_passes)]

\* the group as the two searches see it
Searched(g, munge) ==
    IF g # <<>> /\ Truthy(munge) THEN Rejoin(g, 0, Len(g)) ELSE g

\* the token the searches match at a or else at b, as munged; <<>> if none
MatchedAt(h, a, b, munge) ==
    IF a > 0 THEN munger(Slice(h[a], 2, Len(h[a]) - 1), munge)
    ELSE IF b > 0 THEN munger(h[b], munge)
    ELSE <<>>

\* the matched address token of group g; <<>> if it has none
Matched(g, munge) ==
    MatchedAt(Searched(g, munge), FirstAngle(Searched(g, munge), 1, munge),
              FirstBare(Searched(g, munge), 1, munge), munge)

\* the matched tokens of the groups that have one, in order
RECURSIVE MatchedTokens(_, _)
MatchedTokens(groups, munge) ==
    IF groups = <<>> THEN <<>>
    ELSE (IF Matched(Head(groups), munge) = <<>> THEN <<>>
          ELSE <<Matched(Head(groups), munge)>>)
         \o MatchedTokens(Tail(groups), munge)

\* the token has the form local@domain#FP
HasKeySuffix(tok) == \E h \in 1..Len(tok) : tok[h] = "#" /\ h > IndexIn(tok, 1, {"@"})

\* rec is the record the claim gives for the matched token
RecordOf(tok, rec) ==
    IF HasKeySuffix(tok)
        THEN /\ Len(rec.keys) = 1
             /\ tok = rec.address \o <<"#">> \o rec.keys[1]
             /\ ~HasKeySuffix(rec.address)
             /\ "#" \notin {rec.keys[1][j] : j \in 1..Len(rec.keys[1])}
        ELSE /\ rec.keys = <<>>
             /\ rec.address = tok

\* C16: the record of a group whose matched token is local@domain#FP has
\* the address local@domain and exactly one key, of fingerprint FP; the
\* record of a group whose matched token has no '#' after the '@' has the
\* token as address and no key.
C16_KeySuffixSplit ==
    (ah_pc = "returned" /\ ah_list # <<>>) =>
        /\ Len(ah_list) = Len(MatchedTokens(ah_groups, LastMunge))
        /\ \A i \in 1..Len(ah_list) :
               RecordOf(MatchedTokens(ah_groups, LastMunge)[i], ah_list[i])

\* two records are returned, the first with the key k, the second without
C16_Witness ==
    /\ ah_pc = "returned"
    /\ Len(ah_list) = 2
    /\ ah_list[1].address = <<"c", "@", "d">>
    /\ ah_list[1].keys = << <<"k">> >>
    /\ ah_list[2].keys = <<>>

\* C17: in strict mode _parse runs the first, unmunged pass only, whether
\* or not every group yields an address in it.
C17_StrictRunsFirstPassOnly ==
    (ah_pc # "new" /\ ah_args.strict) => ah_passes = <<"1">>

\* a strict parse is over and a group of its first pass yields no address
C17_Witness ==
    /\ ah_pc = "returned"
    /\ ah_args.strict
    /\ \E i \in 1..Len(ah_groups) :
           ah_groups[i] # <<>> /\ find_address(ah_groups[i], FALSE, "").found = <<>>

\* the header holds one of the characters the third pass is to remove
HasStripped(data) == \E i \in 1..Len(data) : data[i] \in {"<", ">", "\""}

\* the tokens of the header with the spaces of pass 2 inserted and every
\* '<', '>' and '"' removed
StrippedTokens(data) ==
    FindAllTokens(MungeTokenStrippers(MungeTokenSpacers(data, 1)), 1)

\* C22: the third pass tokenizes the header after removing every '<', '>'
\* and '"' on top of the space insertion of pass 2, so its tokens differ
\* from those of the second pass whenever the header holds such a character.
C22_ThirdPassStrips ==
    (ah_pc # "new" /\ Len(ah_passes) = 3) =>
        /\ ah_tokens = StrippedTokens(ah_raw_data)
        /\ HasStripped(ah_raw_data) => ah_tokens # tokenize(ah_raw_data, "2")

\* what holds: the third pass leaves the tokens of the second
ThirdPassAsSecond ==
    (ah_pc # "new" /\ Len(ah_passes) = 3) =>
        ah_tokens = tokenize(ah_raw_data, "2")

\* the group holds a token with an '@'
HasAtToken(g) == \E k \in 1..Len(g) : HasAtSign(g[k])

\* the group holds a token that starts with 'undisclosed'
HasIgnoredToken(g) == \E k \in 1..Len(g) : IsIgnoredGroupToken(g[k])

\* the groups of _group when it reaches token k of tokens
GroupsBefore(tokens, k) == GroupFold(<< <<>> >>, SubSeq(tokens, 1, k - 1))

\* what _group does with the separator it meets with the groups before:
\* a new group exactly when the current one has a token with '@'; the
\* current group emptied when it has none and holds an ignored token
SeparatorRule(before, after) ==
    /\ Len(after) = Len(before) + 1 <=> HasAtToken(Last(before))
    /\ Len(after) \in {Len(before), Len(before) + 1}
    /\ HasAtToken(Last(before)) => Last(after) = <<>> /\ SubSeq(after, 1, Len(before)) = before
    /\ (~HasAtToken(Last(before)) /\ HasIgnoredToken(Last(before))) => Last(after) = <<>>

\* C24: _group starts a group at a ',' or ';' exactly when the current
\* group holds a token with '@', and empties a current group that holds an
\* 'undisclosed' token and no '@' token; so no group it returns is empty and
\* every group but the last holds a token with '@'.
C24_GroupAtSeparator ==
    ah_pc # "new" =>
        /\ \A k \in 1..Len(ah_tokens) :
               IF Strip(ah_tokens[k]) \in {<<",">>, <<";">>}
                   THEN SeparatorRule(GroupsBefore(ah_tokens, k),
                                      GroupsBefore(ah_tokens, k + 1))
                   ELSE Len(GroupsBefore(ah_tokens, k + 1)) =
                            Len(GroupsBefore(ah_tokens, k))
        /\ \A i \in 1..Len(ah_groups) :
               /\ ah_groups[i] # <<>>
               /\ i < Len(ah_groups) => HasAtToken(ah_groups[i])

\* C24 witness: an 'undisclosed' group was dropped at its separator and the
\* group after it is returned
C24_Witness ==
    /\ ah_pc = "returned"
    /\ Len(ah_tokens) = 3
    /\ IsIgnoredGroupToken(ah_tokens[1])
    /\ ah_tokens[2] \in {<<",">>, <<";">>}
    /\ Len(ah_groups) = 1
    /\ ~HasIgnoredToken(ah_groups[1])

\* the groups that have a matched token, in order, as the searches see them
RECURSIVE MatchedGroups(_, _)
MatchedGroups(groups, munge) ==
    IF groups = <<>> THEN <<>>
    ELSE (IF Matched(Head(groups), munge) = <<>> THEN <<>>
          ELSE <<Searched(Head(groups), munge)>>)
         \o MatchedGroups(Tail(groups), munge)

\* the indices of the angle-bracketed tokens of e-mail shape, and of the
\* bare tokens of e-mail shape
AngleIndices(g, munge) == {i \in 1..Len(g) : AngleEmail(g, i, munge)}
BareIndices(g, munge) == {i \in 1..Len(g) : BareEmail(g, i, munge)}

\* the least index of a non-empty set of indices
Least(indices) == CHOOSE i \in indices : \A j \in indices : i <= j

\* the index of the token the claim gives as the address
ChosenIndex(g, munge) ==
    IF AngleIndices(g, munge) # {} THEN Least(AngleIndices(g, munge))
    ELSE Least(BareIndices(g, munge))

\* the token at i as an address and its key suffix: what is between the
\* angle brackets, or the bare token
AddressToken(g, i, munge) ==
    IF AngleIndices(g, munge) # {}
        THEN munger(SubSeq(g[i], 2, Len(g[i]) - 1), munge)
        ELSE munger(g[i], munge)

\* the string without its white space
Squeeze(str) == SelectSeq(str, LAMBDA c : c \notin Space)

\* the tokens of g but the i-th, in order, without the parentheses around
\* a token and without white space
RECURSIVE OtherTokens(_, _, _)
OtherTokens(g, i, j) ==
    IF j > Len(g) THEN <<>>
    ELSE (IF j = i THEN <<>> ELSE Squeeze(Unparen(g[j]))) \o OtherTokens(g, i, j + 1)

\* rec is the record of group g: the address is the chosen token, the
\* display name is made of the other tokens in their order
RecordOfGroup(g, rec, munge) ==
    /\ RecordOf(AddressToken(g, ChosenIndex(g, munge), munge), rec)
    /\ Squeeze(rec.fn) = OtherTokens(g, ChosenIndex(g, munge), 1)

\* C25: _find_address gives as address the first angle-bracketed token of
\* e-mail shape, also when a bare token of e-mail shape precedes it, and the
\* first bare token of e-mail shape only when there is no such
\* angle-bracketed token; the other tokens of the group, in their order,
\* form the display name.
C25_AngleBeforeBare ==
    (ah_pc = "returned" /\ ah_list # <<>>) =>
        /\ Len(ah_list) = Len(MatchedGroups(ah_groups, LastMunge))
        /\ \A i \in 1..Len(ah_list) :
               RecordOfGroup(MatchedGroups(ah_groups, LastMunge)[i], ah_list[i], LastMunge)

\* C25 witness: the angle-bracketed address is returned and the bare
\* address before it, with its key suffix, is the display name
C25_Witness ==
    /\ ah_pc = "returned"
    /\ Len(ah_list) = 1
    /\ ah_list[1].address = <<"a", "@", "b">>
    /\ ah_list[1].fn = <<"c", "@", "d", "#", "k">>
    /\ ah_list[1].keys = <<>>

(***************************************************************************)
(* Properties of the armor runs: classifier output and overlay.            *)
(***************************************************************************)
\* block b of the sequence blocks and the two blocks before it have the types third,
\* second, first
RunEndsAt(blocks, b, first, second, third) ==
    /\ b >= 3
    /\ blocks[b - 2].type = first
    /\ blocks[b - 1].type = second
    /\ blocks[b].type = third

\* in a block sequence, every pgpsignature block closes an adjacent
\* pgpbeginsigned, pgpsignedtext, pgpsignature run and every pgpend block
\* an adjacent pgpbegin, pgptext, pgpend run
ArmorRunsAdjacent(blocks) ==
    \A b \in 1..Len(blocks) :
        /\ blocks[b].type = "pgpsignature" =>
               RunEndsAt(blocks, b, "pgpbeginsigned", "pgpsignedtext", "pgpsignature")
        /\ blocks[b].type = "pgpend" =>
               RunEndsAt(blocks, b, "pgpbegin", "pgptext", "pgpend")

\* the blocks of text_parts that parse_text_part made of the payload of
\* part o, in order
PartBlocks(text_parts, o) == SelectSeq(text_parts, LAMBDA b : b.origin = o)

\* the call was passed the data of exactly three adjacent blocks, the last
\* being the one at which it was made
RunOfThree(text_parts, call) ==
    /\ call.at >= 3
    /\ call.arg = text_parts[call.at - 2].data \o text_parts[call.at - 1].data
                      \o text_parts[call.at].data

\* C30: in the blocks parse_text_part makes of each payload, every
\* pgpsignature block is immediately preceded by a pgpsignedtext block
\* preceded by a pgpbeginsigned block and every pgpend block by a pgptext
\* block preceded by a pgpbegin block; and every run the overlay completes
\* on these blocks, by a verify or a decrypt call, consists of exactly three
\* adjacent blocks.
C30_ArmorRunsOfThree ==
    /\ \A o \in 1..Len(ev_msg) : ArmorRunsAdjacent(PartBlocks(ev_orig, o))
    /\ \A k \in 1..Len(ev_calls) : RunOfThree(ev_orig, ev_calls[k])

\* the classifier's half of it, on every prefix of every input
ClassifierRunsAdjacent == ArmorRunsAdjacent(tp_parse)

\* the overlay's half of it for the runs gpg.verify is called on
VerifyRunsOfThree ==
    /\ \A o \in 1..Len(ev_msg) : ArmorRunsAdjacent(PartBlocks(ev_orig, o))
    /\ \A k \in 1..Len(ev_calls) :
           ev_calls[k].op = "verify" => RunOfThree(ev_orig, ev_calls[k])

\* a complete signed run and a complete encrypted run have been classified
ClassifiedRun ==
    /\ Len(tp_parse) >= 3
    /\ tp_parse[Len(tp_parse)].type \in {"pgpsignature", "pgpend"}

(***************************************************************************)
(* Properties of the parse cache under concurrent callers.                 *)
(***************************************************************************)
\* the statements that read the cache
ObservingPcs == {"lookup_scan", "clear_scan", "update_scan"}

\* C11: under any interleaving of ParseMessage, ClearParseCache and
\* update_parse_cache calls, every lookup scan, every truncate and prepend
\* and every in-place rewrite runs while its thread holds
\* GLOBAL_PARSE_CACHE_LOCK, and a thread that reads the cache never sees it
\* between a truncation and its prepend or with more than 25 entries.
C11_CacheAccessUnderLock ==
    /\ \A t \in Threads : lk_thr[t].pc \in LockedPcs => lk_holder = t
    /\ \A t \in Threads :
           lk_thr[t].pc \in ObservingPcs =>
               /\ Len(gpc) <= CACHE_KEEP + 1
               /\ \A u \in Threads \ {t} : lk_thr[u].pc # "prepend"

\* a thread scans the full cache while the other waits to insert
C11_Witness ==
    \E t \in Threads, u \in Threads :
        /\ t # u
        /\ lk_thr[t].pc \in ObservingPcs
        /\ lk_thr[t].i > 1
        /\ lk_thr[u].pc = "insert_lock"
        /\ Len(gpc) >= CACHE_KEEP

\* the lookups of ParseMessage(fd, cache_id=k) that are answered from the
\* cache, once update_parse_cache has returned and nobody holds the lock,
\* never return one of the messages msgs
LookupsAvoid(msgs) ==
    (lk_hist.updated /\ lk_holder = 0) =>
        \A k \in {1}, pm \in BOOLEAN :
            FirstMatch(gpc, 1, k, pm) > 0 => Returned(gpc, k, pm).msg \notin msgs

\* C27: once update_parse_cache has returned, a lookup of the id, whatever
\* ParseMessage calls ran concurrently with the update, never returns a
\* message made before the update: neither one the cache held when the update
\* began nor one a call in flight had built from the file by then.
C27_LookupSeesUpdate == LookupsAvoid(lk_hist.cached \cup lk_hist.held)

\* what the lock does give: the messages the cache held when the update
\* began are not returned afterwards
CachedBeforeUpdateIsGone == LookupsAvoid(lk_hist.cached)

\* a ParseMessage call that built its message before the update stores it
\* after the update: the cache answers with the message from before
StaleAfterUpdate ==
    /\ lk_hist.updated /\ lk_holder = 0
    /\ Len(gpc) > 0
    /\ gpc[1].cid = 1 /\ gpc[1].msg \in lk_hist.held

====
